---- MODULE Spec2Model ----
(***************************************************************************)
(* Model of the trade pipeline and statistics engine of the trading        *)
(* dashboard:                                                              *)
(*   dashboard/services/trade_processor.py   loader, filter, multiplier,   *)
(*                                           combiner                      *)
(*   dashboard/services/metrics_calculator.py statistics and aggregators   *)
(*                                                                         *)
(* Timestamps are whole minutes since 00:00 of day 0; day 0 is a Monday.   *)
(* A DataFrame is a record [cols, rows]: the set of column names and the   *)
(* sequence of rows in index order.  A money value is a float: an exact    *)
(* integer amount Num(v), or NaN, the null a money cell that does not      *)
(* parse is coerced to.  A mean or a ratio of numbers is a fraction        *)
(* [num, den], compared with RatEq.                                        *)
(***************************************************************************)
EXTENDS Integers, Sequences, FiniteSets, TLC

VARIABLES
    pc,       \* position of the request: "ready", then the operation that ran;
              \* for trial requests, the position of each worker in start_trial
    df,       \* the trade set handed to the operation that ran, as the call left it
    out,      \* what the operation returned (or the error it raised); for
              \* trial requests, what each worker's last start_trial call did
    fs,       \* the stored data: the trade files as found on disk, or the
              \* committed rows of the trial tables and the clock
    req,      \* the arguments of the call (of each worker's call)
    res       \* what load_and_process_trades returned; for the loader's
              \* operations, the trade set as it was when the operation was
              \* called; for trial requests, the rows each worker's open
              \* transaction has written and not yet committed

vars == <<pc, df, out, fs, req, res>>

(***************************************************************************)
(* Bounds of the model.                                                    *)
(***************************************************************************)
MaxTrades == 3        \* rows of a trade set given to the statistics engine
MaxDay == 2           \* entry and exit times lie on days 0..MaxDay
MaxRows == 2          \* rows of a trade file
MaxContracts == 2     \* largest contract multiplier of a request
MaxFiles == 4         \* entries of the folder scanned for instruments
MaxWorkers == 2       \* requests that run start_trial at the same time
MaxWeeks == 1         \* the clock of the trial tables runs over 0..7*MaxWeeks days
MaxCalls == 3         \* statistics calls made on the sets of one load
MaxClock == 2         \* the clock of the user table runs over 0..MaxClock
MaxEdits == 1         \* changes a member of staff makes at the admin site
MaxTieRanks == 2      \* ranks of a tie order of the unstable sort

(***************************************************************************)
(* Constants of the program and of its libraries.                          *)
(***************************************************************************)
MinutesPerDay == 1440     \* Timedelta(days=1), .dt.date, .days
WindowMinutes == 5        \* .dt.floor('5min')
PercentScale == 100       \* "* 100" of the percentages
DefaultContracts == 1     \* instrument_contracts.get(name, 1)
MaxWindowsShown == 10     \* max_instrument_windows[:10]
MaxWindowDetails == 50    \* .head(50)

(***************************************************************************)
(* Arithmetic helpers.                                                     *)
(***************************************************************************)
Max2(a, b) == IF a >= b THEN a ELSE b
Min2(a, b) == IF a <= b THEN a ELSE b
Abs(x) == IF x < 0 THEN -x ELSE x

RECURSIVE SumSeq(_)
SumSeq(s) == IF s = <<>> THEN 0 ELSE Head(s) + SumSeq(Tail(s))

RECURSIVE MaxSeq(_)
MaxSeq(s) == IF Len(s) = 1 THEN s[1] ELSE Max2(Head(s), MaxSeq(Tail(s)))

RECURSIVE MinSeq(_)
MinSeq(s) == IF Len(s) = 1 THEN s[1] ELSE Min2(Head(s), MinSeq(Tail(s)))

Rat(n, d) == [num |-> n, den |-> d]
RatZero == Rat(0, 1)
RatEq(a, b) == a.num * b.den = b.num * a.den
RatAbs(a) == Rat(Abs(a.num), Abs(a.den))
RatMul(a, b) == Rat(a.num * b.num, a.den * b.den)
RatSub(a, b) == Rat(a.num * b.den - b.num * a.den, a.den * b.den)
RatDiv(a, b) == Rat(a.num * b.den, a.den * b.num)
Mean(s) == Rat(SumSeq(s), Len(s))

(***************************************************************************)
(* Floats of a Profit column.  numpy reductions and arithmetic propagate   *)
(* NaN, comparisons with NaN are false, pandas reductions skip NaN.        *)
(***************************************************************************)
Num(v) == [nan |-> FALSE, v |-> v]
NaN == [nan |-> TRUE, v |-> 0]
FSub(a, b) == IF a.nan \/ b.nan THEN NaN ELSE Num(a.v - b.v)
FMul(a, m) == IF a.nan THEN NaN ELSE Num(a.v * m)
NotNull(s) == SelectSeq(s, LAMBDA x : ~x.nan)
ValuesOf(s) == [i \in 1..Len(s) |-> s[i].v]
HasNaN(s) == \E i \in 1..Len(s) : s[i].nan
NpSum(s) == IF HasNaN(s) THEN NaN ELSE Num(SumSeq(ValuesOf(s)))     \* ndarray.sum()
NpMean(s) == IF HasNaN(s) THEN NaN ELSE Mean(ValuesOf(s))           \* ndarray.mean()
NpMax(s) == IF HasNaN(s) THEN NaN ELSE Num(MaxSeq(ValuesOf(s)))     \* ndarray.max()
NpMin(s) == IF HasNaN(s) THEN NaN ELSE Num(MinSeq(ValuesOf(s)))     \* ndarray.min()
\* Series.min() and the groupby 'sum': NaN is skipped.
SkipNaMin(s) == IF NotNull(s) = <<>> THEN NaN ELSE Num(MinSeq(ValuesOf(NotNull(s))))
SkipNaSum(s) == SumSeq(ValuesOf(NotNull(s)))
\* Series.mean(): NaN is skipped, the mean of nothing is NaN.
SkipNaMean(s) == IF NotNull(s) = <<>> THEN NaN ELSE Mean(ValuesOf(NotNull(s)))

(***************************************************************************)
(* Time helpers.                                                           *)
(***************************************************************************)
DateOf(t) == t \div MinutesPerDay                 \* .dt.date
DayOfWeek(t) == DateOf(t) % 7                     \* .dt.dayofweek, Monday = 0
TimedeltaDays(delta) == delta \div MinutesPerDay  \* Timedelta.days (floor)
\* Mutant: the entry time is rounded to the nearest 5-minute boundary.
Floor5Min_nearest(t) == ((t + WindowMinutes \div 2) \div WindowMinutes) * WindowMinutes
Floor5Min(t) == (t \div WindowMinutes) * WindowMinutes

\* NaT, the null of a Timestamp and of a Timedelta.  Times count minutes from
\* an epoch and the Timedeltas the engine keeps (recovery times, gaps between
\* merged intervals) are never negative.
NaT == -1
\* a < b on Timestamps or Timedeltas: a comparison with NaT is False.
TimeLess(a, b) == a # NaT /\ b # NaT /\ a < b
\* Python's max(a, b): a, unless b > a.
BuiltinMax2(a, b) == IF TimeLess(a, b) THEN b ELSE a
\* Python's max(list): a fold of max(a, b) from the first element.
RECURSIVE BuiltinMaxLoop(_, _, _)
BuiltinMaxLoop(s, i, max_item) ==
    IF i > Len(s) THEN max_item
    ELSE BuiltinMaxLoop(s, i + 1, BuiltinMax2(max_item, s[i]))
BuiltinMax(s) == BuiltinMaxLoop(s, 2, s[1])
\* Series.min(), Series.max(), Series.mean() and nunique() skip NaT.
NotNaT(s) == SelectSeq(s, LAMBDA t : t # NaT)

(***************************************************************************)
(* DataFrames.                                                             *)
(***************************************************************************)
RequiredColumns == <<"Entry time", "Exit time">>
TradeColumns == {"Entry time", "Exit time", "Profit", "Market pos."}
TagColumns == {"Instrument", "Contracts"}

EmptyDataFrame == [cols |-> {}, rows |-> <<>>]    \* pd.DataFrame()
Column(rows, col) == [i \in 1..Len(rows) |-> rows[i][col]]    \* df[col].values
\* (df['Exit time'] - df['Entry time']).dt.total_seconds() / 60: NaN where a
\* time is NaT.
HoldingTimes(rows) ==
    [i \in 1..Len(rows) |->
        IF rows[i].exit = NaT \/ rows[i].entry = NaT THEN NaN
        ELSE Num(rows[i].exit - rows[i].entry)]
Profits(frame) == Column(frame.rows, "profit")

Raise(kind) == [ok |-> FALSE, error |-> kind]

(***************************************************************************)
(* calculate_max_consecutive: one pass with a running counter.             *)
(***************************************************************************)
\* Mutant: a zero-profit trade continues a streak.
Matches_zero_counts(profit, direction) ==
    ~profit.nan /\ ((direction = 1 /\ profit.v >= 0) \/ (direction = -1 /\ profit.v <= 0))

Matches(profit, direction) ==
    ~profit.nan /\ ((direction = 1 /\ profit.v > 0) \/ (direction = -1 /\ profit.v < 0))

RECURSIVE ConsecutiveLoop(_, _, _, _, _)
ConsecutiveLoop(profits, direction, i, current_consec, max_consec) ==
    IF i > Len(profits) THEN max_consec
    ELSE IF Matches(profits[i], direction)
         THEN ConsecutiveLoop(profits, direction, i + 1, current_consec + 1,
                              Max2(max_consec, current_consec + 1))
         ELSE ConsecutiveLoop(profits, direction, i + 1, 0, max_consec)

calculate_max_consecutive(profits, direction) ==
    IF Len(profits) = 0 THEN 0
    ELSE ConsecutiveLoop(profits, direction, 1, 0, 0)

(***************************************************************************)
(* Equity curve and drawdown: cumsum, expanding().max(), difference.       *)
(* Series.cumsum() skips a NaN: the entry is NaN and the sum carries on.   *)
(* expanding().max() is the largest value seen so far, NaN until one is.   *)
(***************************************************************************)
RECURSIVE CumSumLoop(_, _, _, _)
CumSumLoop(s, i, acc, result) ==
    IF i > Len(s) THEN result
    ELSE IF s[i].nan
         THEN CumSumLoop(s, i + 1, acc, Append(result, NaN))
         ELSE CumSumLoop(s, i + 1, acc + s[i].v, Append(result, Num(acc + s[i].v)))

CumSum(s) == CumSumLoop(s, 1, 0, <<>>)

RECURSIVE ExpandingMaxLoop(_, _, _, _)
ExpandingMaxLoop(s, i, best, result) ==
    IF i > Len(s) THEN result
    ELSE LET b == IF s[i].nan THEN best
                  ELSE IF best.nan THEN s[i]
                  ELSE Num(Max2(best.v, s[i].v))
         IN ExpandingMaxLoop(s, i + 1, b, Append(result, b))

\* Mutant: the maximum of the whole curve instead of the running maximum.
ExpandingMax_global(s) ==
    [i \in 1..Len(s) |->
        IF NotNull(s) = <<>> THEN NaN ELSE Num(MaxSeq(ValuesOf(NotNull(s))))]

ExpandingMax(s) == ExpandingMaxLoop(s, 1, NaN, <<>>)

Drawdown(equity_curve) ==
    LET running_max == ExpandingMax(equity_curve)
    IN [i \in 1..Len(equity_curve) |-> FSub(equity_curve[i], running_max[i])]

(***************************************************************************)
(* calculate_recovery_and_flat_periods.                                    *)
(***************************************************************************)
\* Max Time to Recover: one pass over (Exit time, Equity) with a running peak.
\* The peak starts at -inf (has_peak is FALSE until a first peak is set); a
\* NaN equity is greater than nothing.  The time since the peak is NaT when
\* either exit time is, and NaT is greater than nothing; an exit time before
\* the peak's gives a negative Timedelta, which is not greater than the
\* maximum either.
\* Mutant: an equity equal to the peak counts as a new peak.
RECURSIVE RecoveryLoop_ties_count(_, _, _, _, _, _, _)
RecoveryLoop_ties_count(times, equity, i, has_peak, current_peak, peak_time, max_time_to_recover) ==
    IF i > Len(times) THEN max_time_to_recover
    ELSE IF ~equity[i].nan /\ ((~has_peak) \/ equity[i].v >= current_peak)
         THEN LET recovery_time == IF times[i] = NaT \/ peak_time = NaT THEN NaT
                                   ELSE times[i] - peak_time
                  m == IF has_peak /\ recovery_time # NaT
                                   /\ recovery_time > max_time_to_recover
                       THEN recovery_time ELSE max_time_to_recover
              IN RecoveryLoop_ties_count(times, equity, i + 1, TRUE, equity[i].v, times[i], m)
         ELSE RecoveryLoop_ties_count(times, equity, i + 1, has_peak, current_peak,
                                      peak_time, max_time_to_recover)

RECURSIVE RecoveryLoop(_, _, _, _, _, _, _)
RecoveryLoop(times, equity, i, has_peak, current_peak, peak_time, max_time_to_recover) ==
    IF i > Len(times) THEN max_time_to_recover
    ELSE IF ~equity[i].nan /\ ((~has_peak) \/ equity[i].v > current_peak)
         THEN LET recovery_time == IF times[i] = NaT \/ peak_time = NaT THEN NaT
                                   ELSE times[i] - peak_time
                  m == IF has_peak /\ recovery_time # NaT
                                   /\ recovery_time > max_time_to_recover
                       THEN recovery_time ELSE max_time_to_recover
              IN RecoveryLoop(times, equity, i + 1, TRUE, equity[i].v, times[i], m)
         ELSE RecoveryLoop(times, equity, i + 1, has_peak, current_peak,
                           peak_time, max_time_to_recover)

MaxTimeToRecover(rows, equity_curve) ==
    RecoveryLoop(Column(rows, "exit"), equity_curve, 1, FALSE, 0, 0, 0)

\* intervals.sort(key=lambda x: x[0]): a stable sort on the start.  The
\* starts are Entry times, which the loaders keep free of NaT.
RECURSIVE InsertInterval(_, _)
InsertInterval(sorted, x) ==
    IF sorted = <<>> THEN <<x>>
    ELSE IF Head(sorted)[1] <= x[1]
         THEN <<Head(sorted)>> \o InsertInterval(Tail(sorted), x)
         ELSE <<x>> \o sorted

RECURSIVE SortIntervals(_)
SortIntervals(intervals) ==
    IF intervals = <<>> THEN <<>>
    ELSE InsertInterval(SortIntervals(SubSeq(intervals, 1, Len(intervals) - 1)),
                        intervals[Len(intervals)])

Intervals(rows) == [i \in 1..Len(rows) |-> <<rows[i].entry, rows[i].exit>>]

\* The merge loop: the next interval extends the current one when it starts
\* before the current end, otherwise the current one is closed.
RECURSIVE MergeLoop(_, _, _, _, _)
MergeLoop(intervals, i, curr_start, curr_end, merged) ==
    IF i > Len(intervals) THEN Append(merged, <<curr_start, curr_end>>)
    ELSE IF TimeLess(intervals[i][1], curr_end)
         THEN MergeLoop(intervals, i + 1, curr_start,
                        BuiltinMax2(curr_end, intervals[i][2]), merged)
         ELSE MergeLoop(intervals, i + 1, intervals[i][1], intervals[i][2],
                        Append(merged, <<curr_start, curr_end>>))

MergeIntervals(sorted) ==
    IF sorted = <<>> THEN <<>>
    ELSE MergeLoop(sorted, 2, sorted[1][1], sorted[1][2], <<>>)

Merged(rows) == MergeIntervals(SortIntervals(Intervals(rows)))

\* The gap after an interval whose end is NaT is NaT.
FlatPeriods(merged) ==
    [i \in 1..(Len(merged) - 1) |->
        IF merged[i + 1][1] = NaT \/ merged[i][2] = NaT THEN NaT
        ELSE merged[i + 1][1] - merged[i][2]]

MaxFlatPeriod(flat_periods) ==
    IF flat_periods # <<>> THEN BuiltinMax(flat_periods) ELSE 0

\* NaT as a mean: pd.Series(flat_periods).mean() when every gap is NaT.
NaTMean == Rat(NaT, 1)

AvgFlatPeriod(flat_periods) ==
    IF flat_periods # <<>>
    THEN IF NotNaT(flat_periods) = <<>> THEN NaTMean ELSE Mean(NotNaT(flat_periods))
    ELSE RatZero

\* % Time in Market: unique entry dates over the days between first entry and
\* last exit.
UniqueTradingDays(rows) ==
    LET entries == NotNaT(Column(rows, "entry"))
    IN Cardinality({DateOf(entries[i]) : i \in 1..Len(entries)})

\* (end_date - start_date).days + 1, at least 1.  When a column holds nothing
\* but NaT its min or max is NaT, .days is nan, and nan < 1 is False.
TotalDays(rows) ==
    LET entries == NotNaT(Column(rows, "entry"))
        exits == NotNaT(Column(rows, "exit"))
    IN IF entries = <<>> \/ exits = <<>> THEN NaN
       ELSE LET start_date == MinSeq(entries)
                end_date == MaxSeq(exits)
                total_days == TimedeltaDays(end_date - start_date) + 1
            IN Num(IF total_days < 1 THEN 1 ELSE total_days)

\* (unique_trading_days / total_days * 100) if total_days > 0 else 0.0
PctTimeInMarket(rows) ==
    LET total_days == TotalDays(rows)
    IN IF ~total_days.nan /\ total_days.v > 0
       THEN Rat(UniqueTradingDays(rows) * PercentScale, total_days.v)
       ELSE RatZero

ZeroPeriods ==
    [max_time_to_recover |-> 0, max_flat_period |-> 0,
     avg_flat_period |-> RatZero, pct_time_in_market |-> RatZero]

calculate_recovery_and_flat_periods(frame, equity_curve) ==
    IF Len(frame.rows) = 0 \/ Len(equity_curve) = 0
    THEN [ok |-> TRUE, periods |-> ZeroPeriods]
    ELSE IF ~({"Entry time", "Exit time"} \subseteq frame.cols)
    THEN Raise("KeyError")
    ELSE LET flat_periods == FlatPeriods(Merged(frame.rows))
         IN [ok |-> TRUE,
             periods |->
               [max_time_to_recover |-> MaxTimeToRecover(frame.rows, equity_curve),
                max_flat_period |-> MaxFlatPeriod(flat_periods),
                avg_flat_period |-> AvgFlatPeriod(flat_periods),
                pct_time_in_market |-> PctTimeInMarket(frame.rows)]]

(***************************************************************************)
(* calculate_comprehensive_stats.                                          *)
(***************************************************************************)
\* Mutant: a zero-profit trade counts as a winner.
IsPositive_or_zero(x) == ~x.nan /\ x.v >= 0

IsPositive(x) == ~x.nan /\ x.v > 0                     \* profits > 0
IsNegative(x) == ~x.nan /\ x.v < 0                     \* profits < 0
Winners(profits) == ValuesOf(SelectSeq(profits, IsPositive))
Losers(profits) == ValuesOf(SelectSeq(profits, IsNegative))

GrossProfit(profits) == IF Len(Winners(profits)) > 0 THEN SumSeq(Winners(profits)) ELSE 0
GrossLoss(profits) == IF Len(Losers(profits)) > 0 THEN SumSeq(Losers(profits)) ELSE 0

WinRate(num_winners, num_trades) ==
    IF num_trades > 0 THEN Rat(num_winners * PercentScale, num_trades) ELSE RatZero

\* abs(gross_profit / gross_loss) if gross_loss != 0
\*     else float('inf') if gross_profit > 0 else 0
Infinity == [num |-> 1, den |-> 0]
ProfitFactor(gross_profit, gross_loss) ==
    IF gross_loss # 0 THEN RatAbs(Rat(gross_profit, gross_loss))
    ELSE IF gross_profit > 0 THEN Infinity ELSE RatZero

\* Mutant: the infinite profit factor is reported as it is.
ReportedProfitFactor_raw(profit_factor) == profit_factor

\* profit_factor if profit_factor != float('inf') else 0
ReportedProfitFactor(profit_factor) ==
    IF profit_factor # Infinity THEN profit_factor ELSE RatZero

AvgWin(profits) == IF Len(Winners(profits)) > 0 THEN Mean(Winners(profits)) ELSE RatZero
AvgLoss(profits) == IF Len(Losers(profits)) > 0 THEN Mean(Losers(profits)) ELSE RatZero

WinLossRatio(avg_win, avg_loss) ==
    IF avg_loss.num # 0 THEN RatAbs(RatDiv(avg_win, avg_loss)) ELSE RatZero

Expectancy(win_rate, avg_win, avg_loss) ==
    RatSub(RatMul(RatDiv(win_rate, Rat(PercentScale, 1)), avg_win),
           RatMul(RatDiv(RatSub(Rat(PercentScale, 1), win_rate), Rat(PercentScale, 1)),
                  RatAbs(avg_loss)))

\* holding_times.mean() if len(holding_times) > 0 else 0
AvgTimeInMarket(frame) ==
    IF {"Entry time", "Exit time"} \subseteq frame.cols
    THEN IF Len(frame.rows) > 0 THEN SkipNaMean(HoldingTimes(frame.rows)) ELSE RatZero
    ELSE RatZero

AvgBars(frame) ==
    IF "Bars" \in frame.cols THEN Mean(Column(frame.rows, "bars")) ELSE RatZero

\* (avg_trade / profits.std()) * np.sqrt(252) if profits.std() != 0 else 0,
\* for more than one trade, else 0.  profits.std() is the population standard
\* deviation sqrt(n * sum(x^2) - sum(x)^2) / n, so the ratio is
\* sign(sum) * sqrt(252 * sum^2 / (n * sum(x^2) - sum(x)^2)); the report keeps
\* the sign and the square as an exact fraction.  A NaN profit makes the
\* deviation NaN, which differs from 0, and the ratio NaN.
TradingDaysPerYear == 252
ZeroSharpe == [sign |-> 0, square |-> RatZero]
Sign(x) == IF x > 0 THEN 1 ELSE IF x < 0 THEN -1 ELSE 0
SharpeRatio(profits) ==
    IF Len(profits) > 1
    THEN IF HasNaN(profits) THEN NaN
         ELSE LET n == Len(profits)
                  total == SumSeq(ValuesOf(profits))
                  squares == SumSeq([i \in 1..n |-> profits[i].v * profits[i].v])
                  spread == n * squares - total * total
              IN IF spread # 0 /\ total # 0
                 THEN [sign |-> Sign(total),
                       square |-> Rat(TradingDaysPerYear * total * total, spread)]
                 ELSE ZeroSharpe
    ELSE ZeroSharpe

EmptyStats == <<>>     \* the empty dict {}
EmptySeries == <<>>    \* pd.Series(dtype=float)

StatsOf(frame, instrument_name, periods) ==
    LET profits == Profits(frame)
        gross_profit == GrossProfit(profits)
        gross_loss == GrossLoss(profits)
        num_trades == Len(frame.rows)
        num_winners == Len(Winners(profits))
        num_losers == Len(Losers(profits))
        win_rate == WinRate(num_winners, num_trades)
        avg_win == AvgWin(profits)
        avg_loss == AvgLoss(profits)
        equity_curve == CumSum(profits)
    IN [instrument |-> instrument_name,
        total_net_profit |-> NpSum(profits),
        gross_profit |-> gross_profit,
        gross_loss |-> gross_loss,
        number_of_trades |-> num_trades,
        number_of_winning_trades |-> num_winners,
        number_of_losing_trades |-> num_losers,
        percent_profitable |-> win_rate,
        avg_trade |-> NpMean(profits),
        avg_winning_trade |-> avg_win,
        avg_losing_trade |-> avg_loss,
        ratio_avg_win_avg_loss |-> WinLossRatio(avg_win, avg_loss),
        profit_factor |-> ReportedProfitFactor(ProfitFactor(gross_profit, gross_loss)),
        largest_winning_trade |-> NpMax(profits),
        largest_losing_trade |-> NpMin(profits),
        max_drawdown |-> SkipNaMin(Drawdown(equity_curve)),
        max_consecutive_winners |-> calculate_max_consecutive(profits, 1),
        max_consecutive_losers |-> calculate_max_consecutive(profits, -1),
        expectancy |-> Expectancy(win_rate, avg_win, avg_loss),
        avg_time_in_market |-> AvgTimeInMarket(frame),
        avg_bars_in_trade |-> AvgBars(frame),
        sharpe_ratio |-> SharpeRatio(profits),
        max_time_to_recover |-> periods.max_time_to_recover,
        max_flat_period |-> periods.max_flat_period,
        avg_flat_period |-> periods.avg_flat_period,
        time_in_market_pct |-> periods.pct_time_in_market]

\* Mutant: no early return for an empty trade set; the column lookup or
\* the max() of an empty array raises.
calculate_comprehensive_stats_unguarded(frame, instrument_name) ==
    IF "Profit" \notin frame.cols THEN Raise("KeyError")
    ELSE IF Len(frame.rows) = 0 THEN Raise("ValueError")
    ELSE LET equity_curve == CumSum(Profits(frame))
             rec == calculate_recovery_and_flat_periods(frame, equity_curve)
         IN IF ~rec.ok THEN rec
            ELSE [ok |-> TRUE,
                  stats |-> StatsOf(frame, instrument_name, rec.periods),
                  equity_curve |-> equity_curve,
                  drawdown |-> Drawdown(equity_curve)]

calculate_comprehensive_stats(frame, instrument_name) ==
    IF Len(frame.rows) = 0
    THEN [ok |-> TRUE, stats |-> EmptyStats,
          equity_curve |-> EmptySeries, drawdown |-> EmptySeries]
    ELSE IF "Profit" \notin frame.cols THEN Raise("KeyError")
    ELSE LET equity_curve == CumSum(Profits(frame))
             rec == calculate_recovery_and_flat_periods(frame, equity_curve)
         IN IF ~rec.ok THEN rec
            ELSE [ok |-> TRUE,
                  stats |-> StatsOf(frame, instrument_name, rec.periods),
                  equity_curve |-> equity_curve,
                  drawdown |-> Drawdown(equity_curve)]

(***************************************************************************)
(* calculate_day_of_week_stats.                                            *)
(***************************************************************************)
DayNames == <<"Monday", "Tuesday", "Wednesday", "Thursday", "Friday",
              "Saturday", "Sunday">>

DayRows(rows, day_num) == SelectSeq(rows, LAMBDA r : DayOfWeek(r.entry) = day_num)

DayStats(day_rows, day_num) ==
    LET profits == Column(day_rows, "profit")
        num_trades == Len(day_rows)
        num_winners == Len(Winners(profits))
        num_losers == Len(Losers(profits))
        gross_profit == IF num_winners > 0 THEN SumSeq(Winners(profits)) ELSE 0
        gross_loss == IF num_losers > 0 THEN SumSeq(Losers(profits)) ELSE 0
    IN [day_of_week |-> day_num,
        day_name |-> DayNames[day_num + 1],
        total_net_profit |-> NpSum(profits),
        number_of_trades |-> num_trades,
        number_of_winning_trades |-> num_winners,
        number_of_losing_trades |-> num_losers,
        percent_profitable |-> WinRate(num_winners, num_trades),
        avg_trade |-> NpMean(profits),
        avg_winning_trade |-> AvgWin(profits),
        avg_losing_trade |-> AvgLoss(profits),
        gross_profit |-> gross_profit,
        gross_loss |-> gross_loss,
        profit_factor |-> ReportedProfitFactor(ProfitFactor(gross_profit, gross_loss))]

\* Mutant: a weekday without trades gets a row too.
RECURSIVE DayLoop_keeps_empty_days(_, _, _)
DayLoop_keeps_empty_days(rows, day_num, day_stats) ==
    IF day_num > 6 THEN day_stats
    ELSE DayLoop_keeps_empty_days(
             rows, day_num + 1,
             Append(day_stats, DayStats(DayRows(rows, day_num), day_num)))

RECURSIVE DayLoop(_, _, _)
DayLoop(rows, day_num, day_stats) ==
    IF day_num > 6 THEN day_stats
    ELSE LET day_rows == DayRows(rows, day_num)
         IN IF Len(day_rows) = 0
            THEN DayLoop(rows, day_num + 1, day_stats)
            ELSE DayLoop(rows, day_num + 1,
                         Append(day_stats, DayStats(day_rows, day_num)))

calculate_day_of_week_stats(frame) ==
    IF Len(frame.rows) = 0 THEN [ok |-> TRUE, table |-> <<>>]
    ELSE IF ~({"Entry time", "Profit"} \subseteq frame.cols) THEN Raise("KeyError")
    ELSE [ok |-> TRUE, table |-> DayLoop(frame.rows, 0, <<>>)]

(***************************************************************************)
(* calculate_daily_instrument_stats and calculate_5min_window_stats: the   *)
(* same analysis over two grouping keys (the entry date, the entry time    *)
(* floored to 5 minutes).                                                  *)
(***************************************************************************)
RECURSIVE SetToSortedSeq(_)
SetToSortedSeq(S) ==
    IF S = {} THEN <<>>
    ELSE LET m == CHOOSE x \in S : \A y \in S : x <= y
         IN <<m>> \o SetToSortedSeq(S \ {m})

Take(s, n) == SubSeq(s, 1, Min2(n, Len(s)))

\* The grouping key of a row: df['Date'] or df['Time_Window'].
GroupKey(r, by) == IF by = "Date" THEN DateOf(r.entry) ELSE Floor5Min(r.entry)

GroupRows(rows, by, k) == SelectSeq(rows, LAMBDA r : GroupKey(r, by) = k)
GroupKeys(rows, by) == SetToSortedSeq({GroupKey(rows[i], by) : i \in 1..Len(rows)})
GroupInstruments(rows, by, k) ==
    LET g == GroupRows(rows, by, k) IN {g[i].instrument : i \in 1..Len(g)}
GroupProfit(rows, by, k) == SkipNaSum(Column(GroupRows(rows, by, k), "profit"))

\* The instrument codes in the order of Python's string comparison.
InstrumentOrder == <<"A", "B">>

\* Mutant: the names of a group in the order unique() finds them, unsorted.
RECURSIVE UniqueInOrder(_, _)
UniqueInOrder(names, seen) ==
    IF names = <<>> THEN <<>>
    ELSE IF Head(names) \in seen THEN UniqueInOrder(Tail(names), seen)
    ELSE <<Head(names)>> \o UniqueInOrder(Tail(names), seen \cup {Head(names)})
GroupInstrumentNames_unsorted(rows, by, k) ==
    UniqueInOrder(Column(GroupRows(rows, by, k), "instrument"), {})

\* sorted(df[df[key] == k]['Instrument'].unique().tolist())
GroupInstrumentNames(rows, by, k) ==
    SelectSeq(InstrumentOrder, LAMBDA n : n \in GroupInstruments(rows, by, k))

\* groupby(key)['Instrument'].nunique().reset_index()
InstrumentCounts(rows, by) ==
    LET keys == GroupKeys(rows, by)
    IN [i \in 1..Len(keys) |->
          [key |-> keys[i],
           num_instruments |-> Cardinality(GroupInstruments(rows, by, keys[i]))]]


\* The orders in which a collection can be gone through.
Orders(S) ==
    {o \in [1..Cardinality(S) -> S] : \A i, j \in 1..Cardinality(S) : o[i] = o[j] => i = j}

(***************************************************************************)
(* DataFrame.sort_values(by) with the default kind='quicksort'.  pandas'   *)
(* nargsort hands the key column to numpy's argsort, whose scalar          *)
(* quicksort is an introsort over an array of row positions: partitions of *)
(* more than SMALL_QUICKSORT + 1 rows are split around a median of three,  *)
(* smaller ones are insertion-sorted, and a partition that is popped from  *)
(* the stack below the depth limit is heap-sorted.  The sort keeps rows    *)
(* with equal keys in their order up to 17 rows and not beyond.            *)
(* v is the key column, t the array of row positions being sorted.         *)
(***************************************************************************)
SMALL_QUICKSORT == 16

\* A function over 1..n as a sequence.
AsSeq(f) == SubSeq(f, 1, Len(f))

\* Next(first), with first evaluated once and before Next is entered: TLC
\* evaluates an argument where it is first used, and the comparison is a
\* first use.
Then(first, Next(_)) == IF first = first THEN Next(first) ELSE first

\* The state after n turns of a loop whose k-th turn takes state s to
\* Body(s, first + k - 1).  The turns are taken in two halves, the first
\* evaluated before the second, which keeps the evaluation of a long loop
\* shallow.
RECURSIVE Turns(_, _, _, _)
Turns(Body(_, _), s, first, n) ==
    IF n <= 0 THEN s
    ELSE IF n = 1 THEN Body(s, first)
    ELSE Then(Turns(Body, s, first, n \div 2),
              LAMBDA half : Turns(Body, half, first + (n \div 2), n - (n \div 2)))

INTP_SWAP(t, i, j) == [t EXCEPT ![i] = t[j], ![j] = t[i]]

\* npy_get_msb: the position of the highest set bit.
RECURSIVE npy_get_msb(_)
npy_get_msb(unum) == IF unum <= 1 THEN 0 ELSE 1 + npy_get_msb(unum \div 2)

\* The three compare-and-swap steps on *pl, *pm, *pr.
MedianOfThree(v, t, pl, pm, pr) ==
    Then(IF v[t[pm]] < v[t[pl]] THEN INTP_SWAP(t, pm, pl) ELSE t,
         LAMBDA a :
             Then(IF v[a[pr]] < v[a[pm]] THEN INTP_SWAP(a, pr, pm) ELSE a,
                  LAMBDA b : IF v[b[pm]] < v[b[pl]] THEN INTP_SWAP(b, pm, pl) ELSE b))

\* do { ++pi; } while (v[*pi] < vp), entered at the incremented pi: the
\* first position from pi on whose key is not below the pivot.
ScanUp(v, t, pi, vp) ==
    CHOOSE i \in pi..Len(t) :
        ~(v[t[i]] < vp) /\ \A k \in pi..(i - 1) : v[t[k]] < vp

\* do { --pj; } while (vp < v[*pj]), entered at the decremented pj: the
\* last position up to pj whose key is not above the pivot.
ScanDown(v, t, pj, vp) ==
    CHOOSE j \in 1..pj :
        ~(vp < v[t[j]]) /\ \A k \in (j + 1)..pj : vp < v[t[k]]

\* One turn of for (;;) { scan up; scan down; if (pi >= pj) break; swap }.
PartitionStep(v, s, vp) ==
    IF s.done THEN s
    ELSE Then(ScanUp(v, s.t, s.pi + 1, vp),
              LAMBDA i :
                  Then(ScanDown(v, s.t, s.pj - 1, vp),
                       LAMBDA j :
                           IF i >= j
                           THEN [t |-> s.t, pi |-> i, pj |-> j, done |-> TRUE]
                           ELSE [t |-> INTP_SWAP(s.t, i, j), pi |-> i, pj |-> j,
                                 done |-> FALSE]))

\* The loop runs until the scans meet, after (pj - pi) / 2 + 1 turns at most.
PartitionLoop(v, t, pi, pj, vp) ==
    Turns(LAMBDA s, k : PartitionStep(v, s, vp),
          [t |-> t, pi |-> pi, pj |-> pj, done |-> FALSE], 1, ((pj - pi) \div 2) + 1)

\* One partition of pl..pr: the pivot is parked at pr - 1 and ends at pi.
Partition(v, t, pl, pr) ==
    LET pm == pl + ((pr - pl) \div 2)
    IN Then(MedianOfThree(v, t, pl, pm, pr),
            LAMBDA m :
                Then(PartitionLoop(v, INTP_SWAP(m, pm, pr - 1), pl, pr - 1, v[m[pm]]),
                     LAMBDA p : [t |-> INTP_SWAP(p.t, p.pi, pr - 1), pi |-> p.pi]))

\* The inner loop of the insertion sort: vi moves down past larger keys.
RECURSIVE InsertionShift(_, _, _, _, _)
InsertionShift(v, t, pl, pj, vi) ==
    IF pj > pl /\ v[vi] < v[t[pj - 1]]
    THEN InsertionShift(v, [t EXCEPT ![pj] = t[pj - 1]], pl, pj - 1, vi)
    ELSE [t EXCEPT ![pj] = vi]

\* for (pi = pl + 1; pi <= pr; ++pi)
InsertionSort(v, t, pl, pr) ==
    Turns(LAMBDA s, pi : InsertionShift(v, s, pl, pi, s[pi]), t, pl + 1, pr - pl)

\* aheapsort_ on the n positions after base; a[k] is t[base + k].
RECURSIVE SiftDown(_, _, _, _, _, _, _)
SiftDown(v, t, base, n, i, j, tmp) ==
    IF j > n THEN [t EXCEPT ![base + i] = tmp]
    ELSE LET c == IF j < n /\ v[t[base + j]] < v[t[base + j + 1]] THEN j + 1 ELSE j
         IN IF v[tmp] < v[t[base + c]]
            THEN SiftDown(v, [t EXCEPT ![base + i] = t[base + c]], base, n, c, c + c, tmp)
            ELSE [t EXCEPT ![base + i] = tmp]

\* for (l = n >> 1; l > 0; --l)
BuildHeap(v, t, base, n) ==
    Turns(LAMBDA s, k :
              LET l == (n \div 2) + 1 - k
              IN SiftDown(v, s, base, n, l, l + l, s[base + l]),
          t, 1, n \div 2)

\* for (; n > 1;): the last of the heap takes the place of its first.
DrainHeap(v, t, base, n) ==
    Turns(LAMBDA s, k :
              LET m == n + 1 - k
              IN SiftDown(v, [s EXCEPT ![base + m] = s[base + 1]], base, m - 1, 1, 2,
                          s[base + m]),
          t, 1, n - 1)

aheapsort(v, t, pl, pr) ==
    LET n == pr - pl + 1
    IN DrainHeap(v, BuildHeap(v, t, pl - 1, n), pl - 1, n)

\* QuickLoop is the inner while loop with the insertion sort after it: the
\* larger partition is pushed on the stack with the decremented depth and
\* the loop goes on with the smaller one.  QuickPop is the head of the outer
\* loop, where a partition taken from the stack is heap-sorted when its
\* depth is below the limit.
RECURSIVE QuickLoop(_, _, _, _, _)
RECURSIVE QuickPop(_, _, _, _, _)
QuickLoop(v, t, pl, pr, cdepth) ==
    IF pr - pl > SMALL_QUICKSORT
    THEN Then(Partition(v, t, pl, pr),
              LAMBDA p :
                  LET smaller == IF p.pi - pl < pr - p.pi
                                 THEN <<pl, p.pi - 1>> ELSE <<p.pi + 1, pr>>
                      larger == IF p.pi - pl < pr - p.pi
                                THEN <<p.pi + 1, pr>> ELSE <<pl, p.pi - 1>>
                  IN Then(QuickLoop(v, p.t, smaller[1], smaller[2], cdepth - 1),
                          LAMBDA sorted :
                              QuickPop(v, sorted, larger[1], larger[2], cdepth - 1)))
    ELSE InsertionSort(v, t, pl, pr)

QuickPop(v, t, pl, pr, cdepth) ==
    IF cdepth < 0 THEN aheapsort(v, t, pl, pr)
    ELSE QuickLoop(v, t, pl, pr, cdepth)

\* np.arange(n), counted from 1.
arange(n) == AsSeq([i \in 1..n |-> i])

\* s[::-1]
Reverse(s) == AsSeq([i \in 1..Len(s) |-> s[Len(s) + 1 - i]])

\* take(indexer): the rows at the positions of the indexer.
TakeRows(rows, indexer) == AsSeq([i \in 1..Len(indexer) |-> rows[indexer[i]]])

\* The positions of v in sorted order.
aquicksort(v) ==
    IF Len(v) = 0 THEN <<>>
    ELSE QuickPop(v, arange(Len(v)), 1, Len(v), 2 * npy_get_msb(Len(v)))

\* nargsort: for a descending sort the keys and their positions are
\* reversed, sorted ascending, and the result is reversed.
nargsort(items, ascending) ==
    IF ascending THEN aquicksort(AsSeq(items))
    ELSE Reverse(TakeRows(Reverse(arange(Len(items))), aquicksort(Reverse(items))))

\* sort_values('Num_Instruments', ascending=False).  On builds of numpy
\* that dispatch the sort of an int64 column to a vectorised routine, rows
\* with equal counts come out in an order decided by that routine, the same
\* on every call.  A tie order ranks the rows by their position before the
\* sort: each of the first MaxTieRanks - 1 rows has a rank of its own and
\* the rows from MaxTieRanks on share one; the rows are sorted as they come
\* by rank.  StableOrder is the scalar sort of the rows as they are.
TieOrders == Orders(1..MaxTieRanks)
StableOrder == [i \in 1..MaxTieRanks |-> i]

\* The rows of s whose rank is order[j].
RankBlock(s, j, ranks) ==
    IF j > Len(s) THEN <<>>
    ELSE IF j < ranks THEN <<s[j]>>
    ELSE SubSeq(s, j, Len(s))

\* The rows of s by rank, from rank v on.
RECURSIVE ByRank(_, _, _)
ByRank(s, order, v) ==
    IF v > Len(order) THEN <<>>
    ELSE RankBlock(s, CHOOSE j \in 1..Len(order) : order[j] = v, Len(order))
            \o ByRank(s, order, v + 1)

\* The rows by descending count, rows of equal count as the sort leaves the
\* rows taken in the tie order.
SortByCountDesc(s, order) ==
    LET ranked == ByRank(s, order, 1)
    IN TakeRows(ranked, nargsort(Column(ranked, "num_instruments"), FALSE))

ConcurrencyStats(rows, by) ==
    LET counts == InstrumentCounts(rows, by)
        nums == Column(counts, "num_instruments")
        max_instruments == MaxSeq(nums)
        levels == {nums[i] : i \in 1..Len(nums)}
        group_data == [i \in 1..Len(counts) |->
                         [key |-> counts[i].key,
                          profit |-> GroupProfit(rows, by, counts[i].key),
                          num_instruments |-> counts[i].num_instruments]]
        at_level(n) == SelectSeq(group_data, LAMBDA g : g.num_instruments = n)
        details == [i \in 1..Len(counts) |->
                      [key |-> counts[i].key,
                       instruments |-> GroupInstrumentNames(rows, by, counts[i].key),
                       profit |-> GroupProfit(rows, by, counts[i].key),
                       num_instruments |->
                           Len(GroupInstrumentNames(rows, by, counts[i].key))]]
    IN [max_instruments |-> max_instruments,
        avg_instruments |-> Mean(nums),
        min_instruments |-> MinSeq(nums),
        total_groups |-> Len(counts),
        max_instrument_keys |->
            Column(SelectSeq(counts, LAMBDA c : c.num_instruments = max_instruments),
                   "key"),
        distribution |-> [n \in levels |-> Len(at_level(n))],
        group_data |-> group_data,
        profit_by_instruments |->
            [n \in levels |->
               [avg_profit |-> Mean(Column(at_level(n), "profit")),
                total_profit |-> SumSeq(Column(at_level(n), "profit")),
                num_groups |-> Len(at_level(n))]],
        details |-> details]

calculate_daily_instrument_stats(frame) ==
    IF Len(frame.rows) = 0 THEN [ok |-> TRUE, stats |-> EmptyStats, table |-> <<>>]
    ELSE IF ~({"Entry time", "Instrument", "Profit"} \subseteq frame.cols)
    THEN Raise("KeyError")
    ELSE LET c == ConcurrencyStats(frame.rows, "Date")
         IN [ok |-> TRUE,
             stats |->
               [max_instruments |-> c.max_instruments,
                avg_instruments |-> c.avg_instruments,
                min_instruments |-> c.min_instruments,
                total_trading_days |-> c.total_groups,
                max_instrument_days |-> c.max_instrument_keys,
                max_day_instruments |->
                    [d \in {c.max_instrument_keys[i] : i \in 1..Len(c.max_instrument_keys)}
                       |-> GroupInstrumentNames(frame.rows, "Date", d)],
                distribution |-> c.distribution,
                daily_data |-> c.group_data,
                profit_by_instruments |-> c.profit_by_instruments,
                daily_details |-> c.details],
             table |-> InstrumentCounts(frame.rows, "Date")]

\* The report up to the sort: window_details holds every window, by time.
window_instrument_details(frame) ==
    IF Len(frame.rows) = 0 THEN [ok |-> TRUE, stats |-> EmptyStats, table |-> <<>>]
    ELSE IF ~({"Entry time", "Instrument", "Profit"} \subseteq frame.cols)
    THEN Raise("KeyError")
    ELSE LET c == ConcurrencyStats(frame.rows, "Time_Window")
             shown == Take(c.max_instrument_keys, MaxWindowsShown)
         IN [ok |-> TRUE,
             stats |->
               [max_instruments |-> c.max_instruments,
                avg_instruments |-> c.avg_instruments,
                min_instruments |-> c.min_instruments,
                total_windows |-> c.total_groups,
                max_instrument_windows |-> shown,
                max_window_instruments |->
                    [w \in {shown[i] : i \in 1..Len(shown)}
                       |-> GroupInstrumentNames(frame.rows, "Time_Window", w)],
                distribution |-> c.distribution,
                window_data |-> c.group_data,
                profit_by_instruments |-> c.profit_by_instruments,
                window_details |-> c.details],
             table |-> InstrumentCounts(frame.rows, "Time_Window")]

\* .head(50) of the sorted window_details, placed in the report.
head(report, sorted) ==
    [report EXCEPT !.stats.window_details = Take(sorted, MaxWindowDetails)]

\* The sort of window_details and its head(50); order is the tie order.
sort_values_head(report, order) ==
    IF report.ok /\ report.stats # EmptyStats
    THEN head(report, SortByCountDesc(report.stats.window_details, order))
    ELSE report

\* The reports the sort can give: one for each table a tie order produces.
sort_values_heads(report) ==
    IF report.ok /\ report.stats # EmptyStats
    THEN {head(report, sorted) :
            sorted \in {SortByCountDesc(report.stats.window_details, order) :
                           order \in TieOrders}}
    ELSE {report}

calculate_5min_window_stats(frame, order) ==
    sort_values_head(window_instrument_details(frame), order)

(***************************************************************************)
(* Trade files.  A file is absent, a zero-byte file, a file read_csv cannot *)
(* read (a row with more fields than the header, a directory), or a CSV    *)
(* with a set of columns and its rows as read.  A time cell is text that   *)
(* either has the form dd/mm/yyyy HH:MM:SS, and then denotes minute t, or  *)
(* has not.  A money cell is text such as "$1,234.00" denoting v, or other *)
(* text.                                                                   *)
(***************************************************************************)
TimeCell(t) == [valid |-> TRUE, t |-> t]
BadTimeCell == [valid |-> FALSE, t |-> 0]
\* An empty time cell: read_csv reads it as a missing value and to_datetime
\* turns it into NaT without raising.
MissingTimeCell == [valid |-> TRUE, t |-> NaT]
MoneyCell(v) == [valid |-> TRUE, v |-> v]
BadMoneyCell == [valid |-> FALSE, v |-> 0]
RawRow(entry, exit, profit, pos) ==
    [entry |-> entry, exit |-> exit, profit |-> profit, pos |-> pos]

AbsentFile == [kind |-> "absent", cols |-> {}, rows |-> <<>>]
ZeroByteFile == [kind |-> "empty", cols |-> {}, rows |-> <<>>]
UnreadableFile == [kind |-> "unreadable", cols |-> {}, rows |-> <<>>]
CsvFile(cols, rows) == [kind |-> "csv", cols |-> cols, rows |-> rows]

\* A date argument: a 'dd/mm/yyyy' string (well formed or not) or a datetime.
DateStr(day) == [kind |-> "str", valid |-> TRUE, t |-> day * MinutesPerDay]
BadDateStr == [kind |-> "str", valid |-> FALSE, t |-> 0]
DateTime(t) == [kind |-> "datetime", valid |-> TRUE, t |-> t]
Strftime(d) == DateStr(DateOf(d.t))              \* strftime('%d/%m/%Y')

LoadError(kind, reason, missing, available) ==
    [ok |-> FALSE, error |-> kind, reason |-> reason,
     missing |-> missing, available |-> available]

ToNumeric(cell) == IF cell.valid THEN Num(cell.v) ELSE NaN   \* errors='coerce'

TradeRow(entry, exit, profit, pos, instrument, contracts) ==
    [entry |-> entry, exit |-> exit, profit |-> profit, pos |-> pos,
     instrument |-> instrument, contracts |-> contracts]

\* sort_values('Entry time').reset_index(drop=True): the sort of a
\* datetime64 column is numpy's scalar quicksort on every build.
SortByEntry(rows) == TakeRows(rows, nargsort(Column(rows, "entry"), TRUE))

\* The monetary columns cleaned by the loader and those scaled by the
\* multiplier.  The Profit column is the field profit of a row; any other
\* monetary column a file has is a field of the row under the column's name.
MonetaryColumns ==
    {"Profit", "MAE", "MFE", "ETD", "Commission", "Clearing Fee", "Exchange Fee",
     "IP Fee", "NFA Fee", "Cum. net profit"}
MultipliedColumns ==
    {"Profit", "MAE", "MFE", "ETD", "Commission", "Clearing Fee", "Exchange Fee",
     "IP Fee", "NFA Fee"}
FieldOf(col) == IF col = "Profit" THEN "profit" ELSE col
BaseFields == {"entry", "exit", "profit", "pos"}

ParsedRows(raw) ==
    [i \in 1..Len(raw) |->
       LET base == TradeRow(raw[i].entry.t, raw[i].exit.t, ToNumeric(raw[i].profit),
                            raw[i].pos, "", 0)
           others == DOMAIN raw[i] \ BaseFields
       IN IF others = {} THEN base
          ELSE base @@ [c \in others |->
                          IF c \in MonetaryColumns THEN ToNumeric(raw[i][c])
                          ELSE raw[i][c]]]

\* Mutant: the end of the range is closed.
InRange_closed(rows, start, end) ==
    SelectSeq(rows, LAMBDA r : r.entry # NaT /\ r.entry >= start /\ r.entry <= end)

InRange(rows, start, end) ==
    SelectSeq(rows, LAMBDA r : r.entry # NaT /\ r.entry >= start /\ r.entry < end)

\* Mutant: only the first missing column is reported.
MissingColumns_first(file) ==
    Take(SelectSeq(RequiredColumns, LAMBDA c : c \notin file.cols), 1)

MissingColumns(file) == SelectSeq(RequiredColumns, LAMBDA c : c \notin file.cols)

(***************************************************************************)
(* load_and_filter_trades.                                                 *)
(***************************************************************************)
\* Mutant: the check for data rows comes before the check of the columns.
load_and_filter_trades_rows_first(file, start_date, end_date) ==
    LET missing_columns == MissingColumns(file)
        start == start_date.t
        end == end_date.t + MinutesPerDay
    IN IF file.kind = "absent"
       THEN LoadError("FileNotFoundError", "Trade file not found", <<>>, {})
       ELSE IF file.kind = "empty"
       THEN LoadError("ValueError", "CSV file is empty", <<>>, {})
       ELSE IF file.kind = "unreadable"
       THEN LoadError("ValueError", "Failed to read CSV file", <<>>, {})
       ELSE IF Len(file.rows) = 0
       THEN LoadError("ValueError", "CSV file contains no data rows", <<>>, {})
       ELSE IF missing_columns # <<>>
       THEN LoadError("ValueError", "CSV missing required columns",
                      missing_columns, file.cols)
       ELSE IF \E i \in 1..Len(file.rows) : ~file.rows[i].entry.valid
       THEN LoadError("ValueError", "Failed to parse 'Entry time' column", <<>>, {})
       ELSE IF \E i \in 1..Len(file.rows) : ~file.rows[i].exit.valid
       THEN LoadError("ValueError", "Failed to parse 'Exit time' column", <<>>, {})
       ELSE IF start_date.kind = "str" /\ ~start_date.valid
       THEN LoadError("ValueError", "Invalid start_date format", <<>>, {})
       ELSE IF end_date.kind = "str" /\ ~end_date.valid
       THEN LoadError("ValueError", "Invalid end_date format", <<>>, {})
       ELSE [ok |-> TRUE,
             df |-> [cols |-> file.cols,
                     rows |-> SortByEntry(InRange(ParsedRows(file.rows), start, end))]]

load_and_filter_trades(file, start_date, end_date) ==
    LET missing_columns == MissingColumns(file)
        start == start_date.t
        end == end_date.t + MinutesPerDay
    IN IF file.kind = "absent"
       THEN LoadError("FileNotFoundError", "Trade file not found", <<>>, {})
       ELSE IF file.kind = "empty"
       THEN LoadError("ValueError", "CSV file is empty", <<>>, {})
       ELSE IF file.kind = "unreadable"
       THEN LoadError("ValueError", "Failed to read CSV file", <<>>, {})
       ELSE IF missing_columns # <<>>
       THEN LoadError("ValueError", "CSV missing required columns",
                      missing_columns, file.cols)
       ELSE IF Len(file.rows) = 0
       THEN LoadError("ValueError", "CSV file contains no data rows", <<>>, {})
       ELSE IF \E i \in 1..Len(file.rows) : ~file.rows[i].entry.valid
       THEN LoadError("ValueError", "Failed to parse 'Entry time' column", <<>>, {})
       ELSE IF \E i \in 1..Len(file.rows) : ~file.rows[i].exit.valid
       THEN LoadError("ValueError", "Failed to parse 'Exit time' column", <<>>, {})
       ELSE IF start_date.kind = "str" /\ ~start_date.valid
       THEN LoadError("ValueError", "Invalid start_date format", <<>>, {})
       ELSE IF end_date.kind = "str" /\ ~end_date.valid
       THEN LoadError("ValueError", "Invalid end_date format", <<>>, {})
       ELSE [ok |-> TRUE,
             df |-> [cols |-> file.cols,
                     rows |-> SortByEntry(InRange(ParsedRows(file.rows), start, end))]]

(***************************************************************************)
(* filter_trades_by_direction and apply_contract_multiplier.               *)
(***************************************************************************)
\* Mutant: the Market pos. column is indexed without checking that it is there.
filter_trades_by_direction_no_column_check(frame, direction) ==
    IF direction = "All" THEN frame
    ELSE IF "Market pos." \notin frame.cols THEN Raise("KeyError")
    ELSE IF direction = "Long Only"
    THEN [frame EXCEPT !.rows = SelectSeq(frame.rows, LAMBDA r : r.pos = "Long")]
    ELSE IF direction = "Short Only"
    THEN [frame EXCEPT !.rows = SelectSeq(frame.rows, LAMBDA r : r.pos = "Short")]
    ELSE frame

filter_trades_by_direction(frame, direction) ==
    IF direction = "All" \/ "Market pos." \notin frame.cols THEN frame
    ELSE IF direction = "Long Only"
    THEN [frame EXCEPT !.rows = SelectSeq(frame.rows, LAMBDA r : r.pos = "Long")]
    ELSE IF direction = "Short Only"
    THEN [frame EXCEPT !.rows = SelectSeq(frame.rows, LAMBDA r : r.pos = "Short")]
    ELSE frame

\* Mutant: every monetary column is scaled, the cumulative profit included.
apply_contract_multiplier_all_money(frame, multiplier) ==
    IF multiplier = 1 \/ Len(frame.rows) = 0 THEN frame
    ELSE LET scaled == {FieldOf(c) : c \in MonetaryColumns \cap frame.cols}
         IN [frame EXCEPT !.rows =
               [i \in 1..Len(frame.rows) |->
                  [f \in DOMAIN frame.rows[i] |->
                     IF f \in scaled THEN FMul(frame.rows[i][f], multiplier)
                     ELSE frame.rows[i][f]]]]

apply_contract_multiplier(frame, multiplier) ==
    IF multiplier = 1 \/ Len(frame.rows) = 0 THEN frame
    ELSE LET scaled == {FieldOf(c) : c \in MultipliedColumns \cap frame.cols}
         IN [frame EXCEPT !.rows =
               [i \in 1..Len(frame.rows) |->
                  [f \in DOMAIN frame.rows[i] |->
                     IF f \in scaled THEN FMul(frame.rows[i][f], multiplier)
                     ELSE frame.rows[i][f]]]]

\* The multiplier returns df itself on the early return (no copy is made) and
\* works on df.copy() otherwise, so the caller's frame is left as it was.
ReturnsInput(frame, multiplier) == multiplier = 1 \/ Len(frame.rows) = 0
InputAfterMultiplier(frame, multiplier) == frame

(***************************************************************************)
(* load_and_process_trades.  instruments is the dict's key order; fs holds *)
(* the file behind files['trades'] of each instrument.                     *)
(***************************************************************************)
DictGet(d, k, default) == IF k \in DOMAIN d THEN d[k] ELSE default
EmptyDict == <<>>

\* Mutant: the Contracts tag is the default, not the multiplier applied.
Tagged_default(frame, name, contracts) ==
    [cols |-> frame.cols \cup TagColumns,
     rows |-> [i \in 1..Len(frame.rows) |->
                 [frame.rows[i] EXCEPT !.instrument = name,
                                       !.contracts = DefaultContracts]]]

\* df['Instrument'] = name; df['Contracts'] = contracts
Tagged(frame, name, contracts) ==
    [cols |-> frame.cols \cup TagColumns,
     rows |-> [i \in 1..Len(frame.rows) |->
                 [frame.rows[i] EXCEPT !.instrument = name, !.contracts = contracts]]]

\* strftime is applied to a datetime argument only; a string is passed on.
DateArg(d) == IF d.kind = "datetime" THEN Strftime(d) ELSE d

\* The body of the try block for one instrument.
PipelineOf(files, name, r) ==
    LET contracts == DictGet(r.instrument_contracts, name, DefaultContracts)
    IN Then(load_and_filter_trades(files[name], DateArg(r.start_date),
                                   DateArg(r.end_date)),
            LAMBDA loaded :
                IF ~loaded.ok THEN loaded
                ELSE [ok |-> TRUE,
                      contracts |-> contracts,
                      df |-> apply_contract_multiplier(
                                 filter_trades_by_direction(
                                     loaded.df,
                                     DictGet(r.instrument_filters, name, "All")),
                                 contracts)])

RECURSIVE InstrumentLoop(_, _, _, _, _, _)
InstrumentLoop(files, r, i, all_trades, instruments_data, logged) ==
    IF i > Len(r.instruments)
    THEN [all_trades |-> all_trades, instruments_data |-> instruments_data,
          logged |-> logged]
    ELSE LET name == r.instruments[i]
         IN IF name \notin r.selected_instruments
            THEN InstrumentLoop(files, r, i + 1, all_trades, instruments_data, logged)
            ELSE Then(PipelineOf(files, name, r),
                      LAMBDA p :
                          IF ~p.ok
                          THEN InstrumentLoop(files, r, i + 1, all_trades,
                                              instruments_data, logged \cup {name})
                          ELSE IF Len(p.df.rows) > 0
                          THEN LET tagged == Tagged(p.df, name, p.contracts)
                               IN InstrumentLoop(files, r, i + 1,
                                      Append(all_trades, tagged),
                                      instruments_data @@
                                          (name :> [trades |-> tagged,
                                                    contracts |-> p.contracts]),
                                      logged)
                          ELSE InstrumentLoop(files, r, i + 1, all_trades,
                                              instruments_data, logged))

\* pd.concat(all_trades, ignore_index=True)
RECURSIVE Concat(_)
Concat(frames) ==
    IF frames = <<>> THEN EmptyDataFrame
    ELSE LET rest == Concat(Tail(frames))
         IN [cols |-> Head(frames).cols \cup rest.cols,
             rows |-> Head(frames).rows \o rest.rows]

\* Mutant: no try/except around the pipeline, the first failure propagates.
load_and_process_trades_unguarded(files, r) ==
    LET loop == InstrumentLoop(files, r, 1, <<>>, EmptyDict, {})
        combined_df == Concat(loop.all_trades)
    IN IF loop.logged # {} THEN Raise("ValueError")
       ELSE IF Len(loop.all_trades) = 0
       THEN [ok |-> TRUE, instruments_data |-> EmptyDict,
             combined_df |-> EmptyDataFrame, logged |-> loop.logged]
       ELSE [ok |-> TRUE, instruments_data |-> loop.instruments_data,
             combined_df |-> [combined_df EXCEPT !.rows = SortByEntry(combined_df.rows)],
             logged |-> loop.logged]

\* Mutant: no early return for an empty all_trades, pd.concat([]) raises.
load_and_process_trades_no_empty_check(files, r) ==
    LET loop == InstrumentLoop(files, r, 1, <<>>, EmptyDict, {})
        combined_df == Concat(loop.all_trades)
    IN IF Len(loop.all_trades) = 0 THEN Raise("ValueError")
       ELSE [ok |-> TRUE, instruments_data |-> loop.instruments_data,
             combined_df |-> [combined_df EXCEPT !.rows = SortByEntry(combined_df.rows)],
             logged |-> loop.logged]

\* Mutant: the concatenation is returned without the final sort.
load_and_process_trades_unsorted(files, r) ==
    LET loop == InstrumentLoop(files, r, 1, <<>>, EmptyDict, {})
    IN IF Len(loop.all_trades) = 0
       THEN [ok |-> TRUE, instruments_data |-> EmptyDict,
             combined_df |-> EmptyDataFrame, logged |-> loop.logged]
       ELSE [ok |-> TRUE, instruments_data |-> loop.instruments_data,
             combined_df |-> Concat(loop.all_trades),
             logged |-> loop.logged]

load_and_process_trades(files, r) ==
    Then(InstrumentLoop(files, r, 1, <<>>, EmptyDict, {}),
         LAMBDA loop :
             LET combined_df == Concat(loop.all_trades)
             IN IF Len(loop.all_trades) = 0
                THEN [ok |-> TRUE, instruments_data |-> EmptyDict,
                      combined_df |-> EmptyDataFrame, logged |-> loop.logged]
                ELSE [ok |-> TRUE, instruments_data |-> loop.instruments_data,
                      combined_df |-> [combined_df EXCEPT
                                           !.rows = SortByEntry(combined_df.rows)],
                      logged |-> loop.logged])

(***************************************************************************)
(* Inputs of the statistics engine: trade sets as the pipeline hands them  *)
(* over, in ascending entry order, with parsed times and float profits.    *)
(***************************************************************************)
Days == {d * MinutesPerDay : d \in 0..MaxDay}
StatProfits == {Num(-1), Num(0), Num(2), NaN}
AllColumns == TradeColumns \cup TagColumns

\* A trade is closed at its entry time on the first, the second or the last
\* day, or is entered at time 0 and closed a day later or at the end of the
\* period; or it is entered on the first or the second day and its Exit time
\* cell was empty, which the loader passes on as NaT.
StatSpans ==
    {s \in Days \X Days :
        \/ s[1] = s[2] /\ s[1] \in {0, MinutesPerDay, MaxDay * MinutesPerDay}
        \/ s[1] = 0 /\ s[2] \in {MinutesPerDay, MaxDay * MinutesPerDay}}
OpenRows == {TradeRow(t, NaT, Num(2), "Long", "A", 1) : t \in {0, MinutesPerDay}}
StatRows ==
    {TradeRow(s[1], s[2], p, "Long", "A", 1) : s \in StatSpans, p \in StatProfits}
        \cup OpenRows

IsSortedByEntry(rows) ==
    \A i \in 1..(Len(rows) - 1) : rows[i].entry <= rows[i + 1].entry

\* The trade sets of at most n rows in ascending entry order.
RECURSIVE SortedRowSeqs(_)
SortedRowSeqs(n) ==
    IF n = 0 THEN {<<>>}
    ELSE LET shorter == SortedRowSeqs(n - 1)
         IN shorter \cup
            {Append(rows, r) : <<rows, r>> \in
                {x \in {q \in shorter : Len(q) = n - 1} \X StatRows :
                    IsSortedByEntry(Append(x[1], x[2]))}}

StatRowSeqs == SortedRowSeqs(MaxTrades)

\* Trade sets with the profit sequences of the documented examples.
ExampleRows(profits) ==
    [i \in 1..Len(profits) |-> TradeRow(0, 0, Num(profits[i]), "Long", "A", 1)]
StreakExample == <<5, -3, 2, 2, 2, -1>>
ProfitFactorExample == <<300, -100>>
ExampleRowSeqs == {ExampleRows(StreakExample), ExampleRows(ProfitFactorExample)}

StatFrames ==
    {[cols |-> AllColumns, rows |-> rows] : rows \in StatRowSeqs \cup ExampleRowSeqs}
        \cup {EmptyDataFrame}

NoResult == [ok |-> TRUE]
NoFiles == <<>>
NoRequest == [instruments |-> <<>>]

InitStats ==
    /\ pc = "ready"
    /\ df \in StatFrames
    /\ out = NoResult
    /\ fs = NoFiles
    /\ req = NoRequest
    /\ res = NoResult

ComputeStatistics ==
    /\ pc = "ready"
    /\ pc' = "stats"
    /\ out' = calculate_comprehensive_stats(df, "ALL INSTRUMENTS")
    /\ UNCHANGED <<df, fs, req, res>>

RecoveryStep ==
    /\ pc = "ready"
    /\ pc' = "recovery"
    /\ out' = calculate_recovery_and_flat_periods(
                  df, IF df.rows = <<>> THEN EmptySeries ELSE CumSum(Profits(df)))
    /\ UNCHANGED <<df, fs, req, res>>

DayOfWeekBreakdown ==
    /\ pc = "ready"
    /\ pc' = "dow"
    /\ out' = calculate_day_of_week_stats(df)
    /\ UNCHANGED <<df, fs, req, res>>

DailyConcurrency ==
    /\ pc = "ready"
    /\ pc' = "daily"
    /\ out' = calculate_daily_instrument_stats(df)
    /\ UNCHANGED <<df, fs, req, res>>

WindowConcurrency ==
    /\ pc = "ready"
    /\ pc' = "window"
    /\ out' \in sort_values_heads(window_instrument_details(df))
    /\ UNCHANGED <<df, fs, req, res>>

NextStats ==
    \/ ComputeStatistics
    \/ RecoveryStep
    \/ DayOfWeekBreakdown
    \/ DailyConcurrency
    \/ WindowConcurrency

SpecStats == InitStats /\ [][NextStats]_vars

(***************************************************************************)
(* Inputs of the temporal aggregators: combined sets of two instruments in *)
(* ascending entry order, entered in one 5-minute window, in the next one, *)
(* a day later, on the Sunday and on the Monday of the following week.     *)
(***************************************************************************)
AggTimes ==
    {0, WindowMinutes - 1, WindowMinutes, MinutesPerDay,
     6 * MinutesPerDay, 7 * MinutesPerDay}
AggRows ==
    {TradeRow(t, t, p, "Long", "A", 1) : t \in AggTimes, p \in {Num(2), NaN}}
        \cup {TradeRow(t, t, p, "Short", "B", 1) : t \in AggTimes, p \in {Num(-1), Num(0)}}

\* The combined sets of at most n rows in ascending entry order.
RECURSIVE SortedAggSeqs(_)
SortedAggSeqs(n) ==
    IF n = 0 THEN {<<>>}
    ELSE LET shorter == SortedAggSeqs(n - 1)
         IN shorter \cup
            {Append(x[1], x[2]) :
                x \in {y \in {q \in shorter : Len(q) = n - 1} \X AggRows :
                          IsSortedByEntry(Append(y[1], y[2]))}}

\* A set with more windows than the window report lists: one instrument is
\* entered in the first window, two in each of the MaxWindowDetails that follow.
ManyWindows ==
    <<TradeRow(0, 0, Num(2), "Long", "A", 1)>> \o
    [i \in 1..(2 * MaxWindowDetails) |->
        IF i % 2 = 1
        THEN TradeRow(((i + 1) \div 2) * WindowMinutes, ((i + 1) \div 2) * WindowMinutes,
                      Num(2), "Long", "A", 1)
        ELSE TradeRow((i \div 2) * WindowMinutes + 1, (i \div 2) * WindowMinutes + 1,
                      Num(-1), "Short", "B", 1)]

AggFrames ==
    {[cols |-> AllColumns, rows |-> rows] :
        rows \in SortedAggSeqs(MaxTrades) \cup {ManyWindows}}

InitAggregators ==
    /\ pc = "ready"
    /\ df \in AggFrames
    /\ out = NoResult
    /\ fs = NoFiles
    /\ req = NoRequest
    /\ res = NoResult

NextAggregators ==
    \/ DayOfWeekBreakdown
    \/ DailyConcurrency
    \/ WindowConcurrency

SpecAggregators == InitAggregators /\ [][NextAggregators]_vars

(***************************************************************************)
(* Inputs of the combiner: the trade files of two instruments and the      *)
(* arguments of one load_and_process_trades call.                          *)
(***************************************************************************)
Names == {"A", "B"}
Directions == {"All", "Long Only", "Short Only"}

LongRow == RawRow(TimeCell(MaxDay * MinutesPerDay), TimeCell(MaxDay * MinutesPerDay),
                  MoneyCell(3), "Long")
ShortRow == RawRow(TimeCell(0), TimeCell(0), MoneyCell(-2), "Short")
BadEntryRow == RawRow(BadTimeCell, TimeCell(0), MoneyCell(3), "Long")
NullProfitRow == RawRow(TimeCell(0), TimeCell(0), BadMoneyCell, "Long")
NoEntryRow == RawRow(MissingTimeCell, TimeCell(0), MoneyCell(3), "Long")
NoExitRow == RawRow(TimeCell(0), MissingTimeCell, MoneyCell(3), "Long")
FileRows == {LongRow, ShortRow}

CsvFiles ==
    {CsvFile(TradeColumns, rows) : rows \in UNION {[1..n -> FileRows] : n \in 0..MaxRows}}
        \cup {CsvFile(TradeColumns, <<NullProfitRow>>)}
FailingFiles ==
    {AbsentFile, ZeroByteFile, UnreadableFile,
     CsvFile(TradeColumns \ {"Exit time"}, <<LongRow>>),
     CsvFile(TradeColumns, <<ShortRow, BadEntryRow>>)}
Sources == CsvFiles \cup FailingFiles

InstrumentMaps == {<<"A", "B">>, <<"B", "A">>, <<"A">>}
Selections == {{}, {"A"}, {"A", "B"}}
\* A dict with no key, with a key for one instrument, with a key for each.
FilterDicts ==
    {EmptyDict, ("A" :> "Long Only") @@ ("B" :> "Short Only")}
        \cup {[n \in Names |-> d] : d \in Directions}
ContractDicts ==
    {EmptyDict} \cup {("A" :> m) : m \in 1..MaxContracts}
        \cup {[n \in Names |-> m] : m \in 1..MaxContracts}
DateRanges ==
    {<<DateTime(60), DateTime(MaxDay * MinutesPerDay + 60)>>,
     <<BadDateStr, DateStr(MaxDay)>>}

Requests ==
    {[instruments |-> m, selected_instruments |-> s, instrument_filters |-> f,
      instrument_contracts |-> c, start_date |-> d[1], end_date |-> d[2]] :
        m \in InstrumentMaps, s \in Selections, f \in FilterDicts,
        c \in ContractDicts, d \in DateRanges}

\* The documented end-to-end example: A has Monday trades +100 and +50, B has
\* a Monday trade -20.
ExampleFiles ==
    ("A" :> CsvFile(TradeColumns,
                    <<RawRow(TimeCell(600), TimeCell(660), MoneyCell(100), "Long"),
                      RawRow(TimeCell(720), TimeCell(780), MoneyCell(50), "Short")>>))
    @@ ("B" :> CsvFile(TradeColumns,
                    <<RawRow(TimeCell(630), TimeCell(690), MoneyCell(-20), "Long")>>))
ExampleRequest ==
    [instruments |-> <<"A", "B">>, selected_instruments |-> {"A", "B"},
     instrument_filters |-> EmptyDict, instrument_contracts |-> EmptyDict,
     start_date |-> DateStr(0), end_date |-> DateStr(0)]

\* Two files whose trades are all entered at the same minute, together more
\* rows than the sort handles by insertion alone.
ManyTrades == SMALL_QUICKSORT + 2
TiedFile(first_profit) ==
    CsvFile(TradeColumns,
            [i \in 1..(ManyTrades \div 2) |->
                RawRow(TimeCell(600), TimeCell(660), MoneyCell(first_profit + i - 1), "Long")])
TiedFiles == ("A" :> TiedFile(1)) @@ ("B" :> TiedFile(ManyTrades \div 2 + 2))

InitCombiner ==
    /\ pc = "ready"
    /\ df = EmptyDataFrame
    /\ out = NoResult
    /\ \/ fs \in [Names -> Sources] /\ req \in Requests
       \/ fs = ExampleFiles /\ req = ExampleRequest
       \/ fs = TiedFiles /\ req = ExampleRequest
    /\ res = NoResult

LoadAndProcess ==
    /\ pc = "ready"
    /\ pc' = "loaded"
    /\ res' = load_and_process_trades(fs, req)
    /\ UNCHANGED <<df, out, fs, req>>

\* views.metrics: statistics of the combined set, computed only when it has
\* rows; otherwise the empty defaults are shown.
Metrics ==
    /\ pc = "loaded"
    /\ res.ok
    /\ pc' = "metrics"
    /\ df' = res.combined_df
    /\ LET daily == calculate_daily_instrument_stats(res.combined_df).stats
           windows == window_instrument_details(res.combined_df)
           combined == calculate_comprehensive_stats(res.combined_df, "ALL INSTRUMENTS").stats
           instruments == [n \in DOMAIN res.instruments_data |->
                             calculate_comprehensive_stats(
                                 res.instruments_data[n].trades, n).stats]
       IN \E window_report \in sort_values_heads(windows) :
          out' = IF Len(res.combined_df.rows) > 0
                 THEN [ok |-> TRUE,
                       daily_stats |-> daily,
                       window_stats |-> window_report.stats,
                       combined_stats |-> combined,
                       instruments_stats |-> instruments]
                 ELSE [ok |-> TRUE, daily_stats |-> EmptyStats, window_stats |-> EmptyStats,
                       combined_stats |-> EmptyStats, instruments_stats |-> EmptyDict]
    /\ UNCHANGED <<fs, req, res>>

NextCombiner == LoadAndProcess \/ Metrics

SpecCombiner == InitCombiner /\ [][NextCombiner]_vars

(***************************************************************************)
(* The loader and normalizer on one trade file: load_and_filter_trades,    *)
(* then filter_trades_by_direction (once, and once more with the same      *)
(* mode), then apply_contract_multiplier.                                  *)
(***************************************************************************)
FeeColumns == {"Commission", "Cum. net profit"}
WithFees(raw) ==
    raw @@ ("Commission" :> MoneyCell(1)) @@ ("Cum. net profit" :> MoneyCell(7))
WithoutPos(raw) == [raw EXCEPT !.pos = ""]

\* A long trade entered at 00:00:00 and a short one at 23:59:00 of each day.
LoaderRows ==
    UNION {{RawRow(TimeCell(d * MinutesPerDay), TimeCell(d * MinutesPerDay),
                   MoneyCell(3), "Long"),
            RawRow(TimeCell(d * MinutesPerDay + MinutesPerDay - 1),
                   TimeCell(d * MinutesPerDay + MinutesPerDay - 1),
                   MoneyCell(-2), "Short")} : d \in 0..MaxDay}
LoaderRowSeqs == UNION {[1..n -> LoaderRows] : n \in 0..MaxRows}

\* A file of more rows than the sort handles by insertion alone, entered in
\* turn at minute 0 and at minute 1.
ManyRowsFile ==
    CsvFile(TradeColumns,
            [i \in 1..(SMALL_QUICKSORT + 2) |->
                RawRow(TimeCell((i + 1) % 2), TimeCell((i + 1) % 2), MoneyCell(i), "Long")])

LoaderFiles ==
    {CsvFile(TradeColumns, rows) : rows \in LoaderRowSeqs}
        \cup {CsvFile(TradeColumns \ {"Market pos."},
                      [i \in DOMAIN rows |-> WithoutPos(rows[i])]) :
                 rows \in LoaderRowSeqs}
        \cup {CsvFile(TradeColumns \cup FeeColumns,
                      [i \in DOMAIN rows |-> WithFees(rows[i])]) :
                 rows \in LoaderRowSeqs}
        \cup {AbsentFile, ZeroByteFile, UnreadableFile, ManyRowsFile,
              CsvFile(TradeColumns, <<NullProfitRow>>),
              CsvFile(TradeColumns, <<ShortRow, BadEntryRow>>),
              CsvFile(TradeColumns,
                      <<RawRow(TimeCell(0), BadTimeCell, MoneyCell(3), "Long")>>),
              CsvFile(TradeColumns, <<BadEntryRow>>),
              CsvFile(TradeColumns, <<NoEntryRow, ShortRow>>),
              CsvFile(TradeColumns, <<NoExitRow>>)}
        \cup {CsvFile(TradeColumns \ gone, rows) :
                 gone \in (SUBSET {"Entry time", "Exit time"}) \ {{}},
                 rows \in {<<>>, <<LongRow>>}}

LoaderDateRanges ==
    {<<DateStr(0), DateStr(0)>>,
     <<DateStr(1), DateStr(MaxDay)>>,
     <<DateStr(1), DateStr(0)>>,
     <<DateTime(0), DateTime(0)>>,
     <<DateTime(MinutesPerDay), DateTime(MaxDay * MinutesPerDay)>>,
     <<DateTime(60), DateTime(60)>>,
     <<BadDateStr, DateStr(0)>>,
     <<DateStr(0), BadDateStr>>}

\* The mode strings a caller passes: the three modes and one that is none.
DirectionArgs == Directions \cup {"Long"}
MultiplierArgs == 0..MaxContracts

InitLoader ==
    /\ pc = "ready"
    /\ df = EmptyDataFrame
    /\ out = NoResult
    /\ fs \in LoaderFiles
    /\ \E d \in LoaderDateRanges :
          req = [start_date |-> d[1], end_date |-> d[2],
                 direction |-> "All", multiplier |-> DefaultContracts]
    /\ res = NoResult

LoadAndFilter ==
    /\ pc = "ready"
    /\ pc' = "loaded"
    /\ out' = load_and_filter_trades(fs, req.start_date, req.end_date)
    /\ UNCHANGED <<df, fs, req, res>>

FilterByDirection ==
    /\ pc = "loaded"
    /\ out.ok
    /\ \E direction \in DirectionArgs :
          /\ req' = [req EXCEPT !.direction = direction]
          /\ out' = [ok |-> TRUE, df |-> filter_trades_by_direction(out.df, direction)]
    /\ pc' = "filtered"
    /\ df' = out.df
    /\ res' = [ok |-> TRUE, df |-> out.df]
    /\ UNCHANGED fs

FilterAgain ==
    /\ pc = "filtered"
    /\ pc' = "refiltered"
    /\ out' = [ok |-> TRUE, df |-> filter_trades_by_direction(out.df, req.direction)]
    /\ df' = out.df
    /\ res' = [ok |-> TRUE, df |-> out.df]
    /\ UNCHANGED <<fs, req>>

ApplyContractMultiplier ==
    /\ pc = "filtered"
    /\ \E multiplier \in MultiplierArgs :
          /\ req' = [req EXCEPT !.multiplier = multiplier]
          /\ out' = [ok |-> TRUE,
                     df |-> apply_contract_multiplier(out.df, multiplier),
                     is_input |-> ReturnsInput(out.df, multiplier)]
          /\ df' = InputAfterMultiplier(out.df, multiplier)
    /\ pc' = "scaled"
    /\ res' = [ok |-> TRUE, df |-> out.df]
    /\ UNCHANGED fs

NextLoader ==
    \/ LoadAndFilter
    \/ FilterByDirection
    \/ FilterAgain
    \/ ApplyContractMultiplier

SpecLoader == InitLoader /\ [][NextLoader]_vars

(***************************************************************************)
(* dashboard/services/data_loader.py: find_instruments.  File names are    *)
(* strings over Basic Latin and the Latin-1 letters from À to þ;           *)
(* str.lower, str.upper, str.endswith and str.replace work on their        *)
(* characters.  The path given as folder is missing, is not a directory,   *)
(* is a directory that may not be read, or lists its entries in an order   *)
(* the file system chooses.                                                *)
(***************************************************************************)
CharAt(s, i) == SubSeq(s, i, i)

\* The letters that str.lower and str.upper map to each other one to one.
UpperLetters == "ABCDEFGHIJKLMNOPQRSTUVWXYZÀÁÂÃÄÅÆÇÈÉÊËÌÍÎÏÐÑÒÓÔÕÖØÙÚÛÜÝÞ"
LowerLetters == "abcdefghijklmnopqrstuvwxyzàáâãäåæçèéêëìíîïðñòóôõöøùúûüýþ"
\* The letter of to that stands where c stands in from.
Counterpart(from, to) ==
    [c \in {CharAt(from, i) : i \in 1..Len(from)} |->
        CharAt(to, CHOOSE i \in 1..Len(from) : CharAt(from, i) = c)]
LowerOf == Counterpart(UpperLetters, LowerLetters)
UpperOf == Counterpart(LowerLetters, UpperLetters)

\* str.lower on one character: ß is lower case already.
LowerChar(c) == IF c \in DOMAIN LowerOf THEN LowerOf[c] ELSE c

\* str.upper on one character: ß becomes two letters.
UpperChar(c) ==
    IF c = "ß" THEN "SS"
    ELSE IF c \in DOMAIN UpperOf THEN UpperOf[c]
    ELSE c

RECURSIVE StrLower(_)
StrLower(s) == IF s = "" THEN "" ELSE LowerChar(CharAt(s, 1)) \o StrLower(Tail(s))

RECURSIVE StrUpper(_)
StrUpper(s) == IF s = "" THEN "" ELSE UpperChar(CharAt(s, 1)) \o StrUpper(Tail(s))

EndsWith(s, suffix) ==
    Len(s) >= Len(suffix) /\ SubSeq(s, Len(s) - Len(suffix) + 1, Len(s)) = suffix

\* s[:-len(suffix)]
DropSuffix(s, suffix) == SubSeq(s, 1, Len(s) - Len(suffix))

\* str.replace(old, new): every occurrence, left to right, non-overlapping.
RECURSIVE StrReplace(_, _, _)
StrReplace(s, old, new) ==
    IF Len(s) < Len(old) THEN s
    ELSE IF SubSeq(s, 1, Len(old)) = old
         THEN new \o StrReplace(SubSeq(s, Len(old) + 1, Len(s)), old, new)
         ELSE CharAt(s, 1) \o StrReplace(Tail(s), old, new)

\* os.path.join(folder, name) of posixpath: an absolute name stands alone,
\* and no separator is added to an empty folder or to one that ends in "/".
PathJoin(folder, name) ==
    IF name # "" /\ CharAt(name, 1) = "/" THEN name
    ELSE IF folder = "" \/ EndsWith(folder, "/") THEN folder \o name
    ELSE folder \o "/" \o name

trade_suffixes == <<"-trades.csv", "-Trades.csv">>
summary_suffixes == <<"-summary.csv", "-Summary.csv">>

\* {f.lower(): f for f in files}: a later entry replaces an earlier one.
RECURSIVE lower_to_actual(_)
lower_to_actual(files) ==
    IF files = <<>> THEN EmptyDict
    ELSE LET f == files[Len(files)]
         IN (StrLower(f) :> f) @@ lower_to_actual(SubSeq(files, 1, Len(files) - 1))

\* The prefixes the first loop adds for one file and one list of suffixes:
\* that of the first suffix the lower-cased name ends with.
PrefixesOf(f, suffixes) ==
    LET fl == StrLower(f)
        hits == SelectSeq(suffixes, LAMBDA suf : EndsWith(fl, StrLower(suf)))
    IN IF hits = <<>> THEN {} ELSE {DropSuffix(fl, hits[1])}

Prefixes(files, suffixes) ==
    UNION {PrefixesOf(files[i], suffixes) : i \in 1..Len(files)}

\* The name the second loop finds for a prefix, or "" for None.
ActualName(prefix, suffixes, actual) ==
    LET hits == SelectSeq(suffixes,
                          LAMBDA suf : StrLower(prefix \o suf) \in DOMAIN actual)
    IN IF hits = <<>> THEN "" ELSE actual[StrLower(prefix \o hits[1])]

\* Mutant: the hyphens inside the prefix are kept.
clean_name_keeps_hyphens(prefix) ==
    StrUpper(StrReplace(StrReplace(prefix, "ROA305-", ""), "roa305-", ""))

clean_name(prefix) ==
    StrUpper(StrReplace(StrReplace(StrReplace(prefix, "ROA305-", ""), "roa305-", ""),
                        "-", ""))

\* The loop over matched_prefixes, a set, in the order the set yields them.
RECURSIVE PrefixLoop(_, _, _, _, _)
PrefixLoop(folder, actual, order, i, instruments) ==
    IF i > Len(order) THEN instruments
    ELSE LET trade_name == ActualName(order[i], trade_suffixes, actual)
             summary_name == ActualName(order[i], summary_suffixes, actual)
         IN IF trade_name # "" /\ summary_name # ""
            THEN PrefixLoop(folder, actual, order, i + 1,
                     (clean_name(order[i]) :>
                         [summary |-> PathJoin(folder, summary_name),
                          trades |-> PathJoin(folder, trade_name)]) @@ instruments)
            ELSE PrefixLoop(folder, actual, order, i + 1, instruments)

matched_prefixes(files) ==
    Prefixes(files, trade_suffixes) \cap Prefixes(files, summary_suffixes)

\* os.path.exists is true of a file as well, and os.listdir then raises
\* NotADirectoryError; on a directory without read permission it raises
\* PermissionError, and on one removed since os.path.exists looked
\* FileNotFoundError.  None is caught.
find_instruments(folder, dir, order) ==
    IF ~dir.exists THEN [ok |-> TRUE, instruments |-> EmptyDict]
    ELSE IF dir.listdir # "ok" THEN Raise(dir.listdir)
    ELSE [ok |-> TRUE,
          instruments |->
              PrefixLoop(folder, lower_to_actual(dir.files), order, 1, EmptyDict)]

FolderPaths == {"data", "data/"}
FileNames ==
    {"ROA305-GC-55-trades.csv", "ROA305-GC-55-Summary.csv",
     "gc55-Trades.csv", "gc55-summary.csv", "GC55-TRADES.CSV",
     "ES-trades.csv", "roa305-es-summary.csv", "notes.txt",
     "Éß-trades.csv", "éß-Summary.csv"}
Listings ==
    {l \in UNION {[1..n -> FileNames] : n \in 0..MaxFiles} :
        \A i, j \in 1..Len(l) : l[i] = l[j] => i = j}
Folders ==
    {[exists |-> FALSE, listdir |-> "FileNotFoundError", files |-> <<>>]} \cup
    {[exists |-> TRUE, listdir |-> e, files |-> <<>>] :
        e \in {"NotADirectoryError", "PermissionError", "FileNotFoundError"}} \cup
    {[exists |-> TRUE, listdir |-> "ok", files |-> l] : l \in Listings}

\* The folder is named with and without a trailing separator; with one
\* for the listings of up to half of MaxFiles entries.
InitDiscovery ==
    /\ pc = "ready"
    /\ df = EmptyDataFrame
    /\ out = NoResult
    /\ fs \in Folders
    /\ req \in {[folder |-> folder] :
                  folder \in {f \in FolderPaths :
                                 EndsWith(f, "/") => 2 * Len(fs.files) <= MaxFiles}}
    /\ res = NoResult

\* One call: it returns the mapping or ends with the error of os.listdir.
FindInstruments ==
    /\ pc = "ready"
    /\ \E order \in Orders(matched_prefixes(fs.files)) :
          out' = find_instruments(req.folder, fs, order)
    /\ pc' = IF out'.ok THEN "found" ELSE "raised"
    /\ UNCHANGED <<df, fs, req, res>>

NextDiscovery == FindInstruments

SpecDiscovery == InitDiscovery /\ [][NextDiscovery]_vars

(***************************************************************************)
(* What the claims about the combiner are stated against: the request and  *)
(* the files, read directly.                                               *)
(***************************************************************************)
InMap(n) == \E i \in 1..Len(req.instruments) : req.instruments[i] = n
Chosen(n) == n \in req.selected_instruments /\ InMap(n)
BadDates ==
    \/ req.start_date.kind = "str" /\ ~req.start_date.valid
    \/ req.end_date.kind = "str" /\ ~req.end_date.valid
SourceFails(n) ==
    \/ fs[n].kind # "csv"
    \/ "Entry time" \notin fs[n].cols
    \/ "Exit time" \notin fs[n].cols
    \/ fs[n].rows = <<>>
    \/ \E i \in 1..Len(fs[n].rows) :
          ~fs[n].rows[i].entry.valid \/ ~fs[n].rows[i].exit.valid
    \/ BadDates
Multiplier(n) ==
    IF n \in DOMAIN req.instrument_contracts THEN req.instrument_contracts[n] ELSE 1
Wanted(n, raw) ==
    LET d == IF n \in DOMAIN req.instrument_filters
             THEN req.instrument_filters[n] ELSE "All"
    IN \/ d = "All"
       \/ "Market pos." \notin fs[n].cols
       \/ d = "Long Only" /\ raw.pos = "Long"
       \/ d = "Short Only" /\ raw.pos = "Short"
OnRequestedDays(raw) ==
    DateOf(raw.entry.t) \in DateOf(req.start_date.t)..DateOf(req.end_date.t)
\* The trades a non-failing instrument contributes, in file order.
Contribution(n) ==
    LET kept == SelectSeq(fs[n].rows, LAMBDA raw : OnRequestedDays(raw) /\ Wanted(n, raw))
    IN [i \in 1..Len(kept) |->
          TradeRow(kept[i].entry.t, kept[i].exit.t,
                   IF kept[i].profit.valid
                   THEN Num(kept[i].profit.v * Multiplier(n)) ELSE NaN,
                   kept[i].pos, n, Multiplier(n))]

Occurrences(s, x) == Cardinality({i \in 1..Len(s) : s[i] = x})
SameBag(s, t) ==
    /\ Len(s) = Len(t)
    /\ \A i \in 1..Len(s) : Occurrences(s, s[i]) = Occurrences(t, s[i])
RowsOf(rows, n) == SelectSeq(rows, LAMBDA r : r.instrument = n)
Loaded == pc \in {"loaded", "metrics"}

RECURSIVE SumOver(_, _)
SumOver(S, f) ==
    IF S = {} THEN 0
    ELSE LET x == CHOOSE y \in S : TRUE IN f[x] + SumOver(S \ {x}, f)

\* C1: a selected instrument whose pipeline fails (file absent or empty, a
\* required column missing, no rows, an unparseable timestamp or date) is
\* skipped and recorded, the call still returns, and every other selected
\* instrument contributes exactly its own trades to the per-instrument map
\* and to the combined set.
C1_FailureIsolated ==
    Loaded =>
        /\ res.ok
        /\ \A n \in Names :
            /\ (Chosen(n) /\ SourceFails(n)) =>
                  /\ n \notin DOMAIN res.instruments_data
                  /\ RowsOf(res.combined_df.rows, n) = <<>>
                  /\ n \in res.logged
            /\ (Chosen(n) /\ ~SourceFails(n)) =>
                  /\ n \notin res.logged
                  /\ SameBag(RowsOf(res.combined_df.rows, n), Contribution(n))
                  /\ Contribution(n) # <<>> =>
                        /\ n \in DOMAIN res.instruments_data
                        /\ SameBag(res.instruments_data[n].trades.rows, Contribution(n))

\* One instrument's file has a malformed entry time, the other loads and is
\* returned.
C1_Witness ==
    /\ pc = "loaded"
    /\ Chosen("A") /\ Chosen("B")
    /\ fs["A"] = CsvFile(TradeColumns, <<ShortRow, BadEntryRow>>)
    /\ ~SourceFails("B")
    /\ "A" \in res.logged
    /\ DOMAIN res.instruments_data = {"B"}
    /\ Len(res.combined_df.rows) = MaxRows

\* C2: with nothing selected, or every selected instrument failing or left
\* without trades, the call returns the empty map and the empty combined
\* set, and raises nothing.
NothingSurvives ==
    \A n \in Names : Chosen(n) => (SourceFails(n) \/ Contribution(n) = <<>>)
C2_EmptyResult ==
    (Loaded /\ NothingSurvives) =>
        /\ res.ok
        /\ res.instruments_data = EmptyDict
        /\ res.combined_df = EmptyDataFrame

\* Both instruments are selected: one fails, the filter leaves the other
\* without trades.
C2_Witness ==
    /\ pc = "loaded"
    /\ Chosen("A") /\ Chosen("B")
    /\ SourceFails("A")
    /\ ~SourceFails("B") /\ Contribution("B") = <<>>
    /\ res.ok
    /\ res.instruments_data = EmptyDict
    /\ res.combined_df = EmptyDataFrame

\* C3: the combined set holds exactly the trades of the per-instrument sets
\* returned (its length is the sum of theirs, nothing added, dropped or
\* duplicated), in ascending entry_time order, and the same trades come out
\* when the instrument map lists the instruments in the opposite order.
Reversed(s) == [i \in 1..Len(s) |-> s[Len(s) + 1 - i]]
C3_CombinedIsSortedUnion ==
    Loaded =>
        LET data == res.instruments_data
            rows == res.combined_df.rows
            other == load_and_process_trades(
                         fs, [req EXCEPT !.instruments = Reversed(req.instruments)])
        IN /\ Len(rows) = SumOver(DOMAIN data, [n \in DOMAIN data |-> Len(data[n].trades.rows)])
           /\ \A n \in DOMAIN data : SameBag(RowsOf(rows, n), data[n].trades.rows)
           /\ \A i \in 1..Len(rows) : rows[i].instrument \in DOMAIN data
           /\ IsSortedByEntry(rows)
           /\ IsSortedByEntry(other.combined_df.rows)
           /\ SameBag(other.combined_df.rows, rows)

\* The documented end-to-end example: three combined trades in entry order,
\* the second instrument's trade between the first instrument's two; total
\* net profit 130, win rate 200/3 percent, two instruments on that Monday.
C3_Witness ==
    /\ pc = "metrics"
    /\ fs = ExampleFiles
    /\ Column(df.rows, "entry") = <<600, 630, 720>>
    /\ Column(df.rows, "profit") = <<Num(100), Num(-20), Num(50)>>
    /\ out.combined_stats.number_of_trades = 3
    /\ out.combined_stats.total_net_profit = Num(130)
    /\ RatEq(out.combined_stats.percent_profitable, Rat(200, 3))
    /\ out.daily_stats.max_instruments = 2
    /\ DayOfWeek(df.rows[1].entry) = 0

\* Nine trades of each instrument, all entered at the same minute: the
\* combined set holds the eighteen, the instruments interleaved.
C3_TiedEntries ==
    /\ pc = "loaded"
    /\ fs = TiedFiles
    /\ ValuesOf(Column(res.combined_df.rows, "profit")) =
           <<1, 17, 16, 15, 14, 13, 12, 11, 9, 8, 7, 6, 5, 4, 3, 2, 18, 19>>

\* C4: the per-instrument map has an entry exactly for the instruments that
\* are selected, are in the instrument map, load without failure and keep at
\* least one trade; each trade of an entry and of the combined set carries
\* its instrument's code and the multiplier applied to it (1 when the
\* request gives none), and its profit is the file's profit times that.
TaggedFor(r, n) ==
    /\ r.instrument = n
    /\ r.contracts = Multiplier(n)
    /\ \E i \in 1..Len(fs[n].rows) :
          /\ fs[n].rows[i].entry.t = r.entry
          /\ r.profit = IF fs[n].rows[i].profit.valid
                        THEN Num(fs[n].rows[i].profit.v * r.contracts) ELSE NaN
C4_EntriesAndTags ==
    Loaded =>
        LET data == res.instruments_data
            rows == res.combined_df.rows
        IN /\ DOMAIN data =
                 {n \in Names : Chosen(n) /\ ~SourceFails(n) /\ Contribution(n) # <<>>}
           /\ \A n \in DOMAIN data :
                 /\ data[n].contracts = Multiplier(n)
                 /\ {"Instrument", "Contracts"} \subseteq data[n].trades.cols
                 /\ \A i \in 1..Len(data[n].trades.rows) :
                       TaggedFor(data[n].trades.rows[i], n)
           /\ \A i \in 1..Len(rows) :
                 /\ rows[i].instrument \in DOMAIN data
                 /\ TaggedFor(rows[i], rows[i].instrument)

\* One instrument is scaled by the largest multiplier, the other has no
\* multiplier in the request and is tagged 1.
C4_Witness ==
    /\ pc = "loaded"
    /\ req.instruments = <<"B", "A">>
    /\ DOMAIN res.instruments_data = {"A", "B"}
    /\ req.instrument_contracts = ("A" :> MaxContracts)
    /\ \E i \in 1..Len(res.combined_df.rows) :
          /\ res.combined_df.rows[i].instrument = "A"
          /\ res.combined_df.rows[i].contracts = MaxContracts
          /\ res.combined_df.rows[i].profit = Num(3 * MaxContracts)
    /\ \E i \in 1..Len(res.combined_df.rows) :
          /\ res.combined_df.rows[i].instrument = "B"
          /\ res.combined_df.rows[i].contracts = 1

(***************************************************************************)
(* Claims about the statistics engine, stated against the trade set df.    *)
(***************************************************************************)
NonEmptyStats == pc = "stats" /\ df.rows # <<>>
P == Profits(df)
Indices == 1..Len(df.rows)
NoNullProfit == \A i \in Indices : ~P[i].nan
WinIdx == {i \in Indices : ~P[i].nan /\ P[i].v > 0}
LossIdx == {i \in Indices : ~P[i].nan /\ P[i].v < 0}
ZeroIdx == {i \in Indices : ~P[i].nan /\ P[i].v = 0}
\* Sums and comparisons of the claims: a sum with a null term is null, and
\* a comparison with null is false.
SumAt(I) == SumOver(I, [i \in I |-> P[i].v])
TotalAt(I) == IF \E i \in I : P[i].nan THEN NaN ELSE Num(SumAt(I))
Le(a, b) == ~a.nan /\ ~b.nan /\ a.v <= b.v

EquityAndDrawdownRule ==
    LET eq == out.equity_curve
        dd == out.drawdown
        IsPeak(i) == \A j \in 1..i : Le(eq[j], eq[i])
    IN /\ Len(eq) = Len(df.rows) /\ Len(dd) = Len(df.rows)
       /\ \A i \in Indices :
             /\ eq[i] = TotalAt(1..i)
             /\ \E j \in 1..i : /\ \A k \in 1..i : Le(eq[k], eq[j])
                                /\ dd[i] = FSub(eq[i], eq[j])
             /\ Le(dd[i], Num(0))
             /\ (dd[i] = Num(0)) <=> IsPeak(i)
       /\ \E i \in Indices : out.stats.max_drawdown = dd[i]
       /\ \A i \in Indices : Le(out.stats.max_drawdown, dd[i])

\* C5: for a non-empty trade set the equity series is the prefix sum of the
\* profits in input order, the drawdown series is equity minus the largest
\* equity so far, both have the input's length, drawdown is never positive
\* and is 0 exactly where equity is at its running maximum, and Max
\* Drawdown is the smallest drawdown.
C5_EquityAndDrawdown == NonEmptyStats => EquityAndDrawdownRule

\* The same statement for the trade sets in which every profit is a number.
C5_WhenNoProfitIsNull == (NonEmptyStats /\ NoNullProfit) => EquityAndDrawdownRule

\* A win, a loss, a win to a new high: the drawdown dips and returns to 0.
C5_NumericCase ==
    /\ NonEmptyStats
    /\ P = <<Num(2), Num(-1), Num(2)>>
    /\ out.equity_curve = <<Num(2), Num(1), Num(3)>>
    /\ out.drawdown = <<Num(0), Num(-1), Num(0)>>
    /\ out.stats.max_drawdown = Num(-1)

\* A null profit between a win and a loss: the equity and the drawdown of
\* that trade are null, and the sum carries on without it.
C5_NullCase ==
    /\ NonEmptyStats
    /\ P = <<Num(2), NaN, Num(-1)>>
    /\ out.equity_curve = <<Num(2), NaN, Num(1)>>
    /\ out.drawdown = <<Num(0), NaN, Num(-1)>>

AggregatesRule ==
    LET st == out.stats
    IN /\ st.number_of_trades = Len(df.rows)
       /\ st.number_of_winning_trades = Cardinality(WinIdx)
       /\ st.number_of_losing_trades = Cardinality(LossIdx)
       /\ st.number_of_winning_trades + st.number_of_losing_trades
             <= st.number_of_trades
       /\ st.gross_profit = SumAt(WinIdx)
       /\ st.gross_loss = SumAt(LossIdx)
       /\ st.total_net_profit = Num(st.gross_profit + st.gross_loss)
       /\ st.gross_profit >= 0
       /\ st.gross_loss <= 0

\* C6: for a trade set of n >= 1 trades the report has trade count n, win
\* count the number of profits > 0 and loss count the number of profits < 0
\* (a zero profit is neither, so wins + losses <= n), and total net profit =
\* gross profit + gross loss with gross profit >= 0 >= gross loss.
C6_Aggregates == NonEmptyStats => AggregatesRule

\* The same statement for the trade sets in which every profit is a number.
C6_WhenNoProfitIsNull == (NonEmptyStats /\ NoNullProfit) => AggregatesRule

\* A win, a zero-profit trade and a loss: one winner, one loser, three trades.
C6_NumericCase ==
    /\ NonEmptyStats
    /\ P = <<Num(2), Num(0), Num(-1)>>
    /\ out.stats.number_of_trades = 3
    /\ out.stats.number_of_winning_trades = 1
    /\ out.stats.number_of_losing_trades = 1
    /\ out.stats.total_net_profit = Num(1)

\* A null profit: the total is null while gross profit + gross loss is 1.
C6_NullCase ==
    /\ NonEmptyStats
    /\ P = <<Num(2), NaN, Num(-1)>>
    /\ out.stats.total_net_profit = NaN
    /\ out.stats.gross_profit = 2
    /\ out.stats.gross_loss = -1

\* C7: max consecutive winners (losers) is the length of the longest run of
\* adjacent trades that all have profit > 0 (< 0), a zero profit ending a
\* run of either kind; it is 0 for the empty sequence and when no trade
\* matches; the profits 5, -3, 2, 2, 2, -1 give 3 winners and 1 loser.
IsRun(i, j, direction) ==
    \A k \in i..j : k \in (IF direction = 1 THEN WinIdx ELSE LossIdx)
LongestRun(direction) ==
    LET lengths == {j - i + 1 : <<i, j>> \in
                       {w \in Indices \X Indices : w[1] <= w[2] /\ IsRun(w[1], w[2], direction)}}
    IN IF lengths = {} THEN 0
       ELSE CHOOSE m \in lengths : \A l \in lengths : l <= m
C7_LongestStreak ==
    /\ calculate_max_consecutive(<<>>, 1) = 0
    /\ calculate_max_consecutive(<<>>, -1) = 0
    /\ NonEmptyStats =>
          /\ out.stats.max_consecutive_winners = LongestRun(1)
          /\ out.stats.max_consecutive_losers = LongestRun(-1)
          /\ WinIdx = {} => out.stats.max_consecutive_winners = 0
          /\ LossIdx = {} => out.stats.max_consecutive_losers = 0
          /\ ValuesOf(P) = StreakExample =>
                /\ out.stats.max_consecutive_winners = 3
                /\ out.stats.max_consecutive_losers = 1

\* The documented example.
C7_Witness ==
    /\ NonEmptyStats
    /\ ValuesOf(P) = StreakExample
    /\ out.stats.max_consecutive_winners = 3
    /\ out.stats.max_consecutive_losers = 1

\* A zero-profit trade between two winners ends the run.
C7_ZeroEndsRun ==
    /\ NonEmptyStats
    /\ P \in {<<Num(2), Num(0), Num(2)>>, <<Num(2), NaN, Num(2)>>}
    /\ out.stats.max_consecutive_winners = 1

\* C8: the reported profit factor is |gross profit / gross loss| when gross
\* loss is not 0 and is 0 when gross loss is 0, whether gross profit is
\* positive or not; it is never infinite.  The same holds for each row of
\* the day-of-week breakdown.  Gross profit 300 and gross loss -100 give 3.
ProfitFactorRule(pf, gross_profit, gross_loss) ==
    /\ pf.den # 0
    /\ IF gross_loss # 0
       THEN RatEq(pf, Rat(Abs(gross_profit), Abs(gross_loss)))
       ELSE pf.num = 0
C8_ProfitFactor ==
    /\ NonEmptyStats =>
          /\ ProfitFactorRule(out.stats.profit_factor, SumAt(WinIdx), SumAt(LossIdx))
          /\ ValuesOf(P) = ProfitFactorExample =>
                RatEq(out.stats.profit_factor, Rat(3, 1))
    /\ (pc = "dow" /\ df.rows # <<>>) =>
          \A k \in 1..Len(out.table) :
             LET row == out.table[k]
                 on_day == {i \in Indices : DayOfWeek(df.rows[i].entry) = row.day_of_week}
             IN ProfitFactorRule(row.profit_factor,
                                 SumAt(on_day \cap WinIdx), SumAt(on_day \cap LossIdx))

\* Only winners: the infinite ratio is reported as 0.
C8_Witness ==
    /\ NonEmptyStats
    /\ LossIdx = {} /\ SumAt(WinIdx) > 0
    /\ out.stats.gross_loss = 0
    /\ out.stats.profit_factor = RatZero

\* C9: Max Flat Period and Avg Flat Period are the largest and the mean of
\* the gaps between consecutive merged busy intervals (next start minus
\* previous end), both 0 with fewer than two merged intervals; the largest
\* gap is the longest span from an exit to a later entry during which no
\* trade is open; for two trades with idle time d between the first exit and
\* the second entry Max Flat Period is d (2 days in the documented example).
IdleSpans ==
    {s \in {df.rows[i].exit : i \in Indices} \X {df.rows[i].entry : i \in Indices} :
        /\ s[1] < s[2]
        /\ \A i \in Indices : df.rows[i].exit <= s[1] \/ df.rows[i].entry >= s[2]}
\* The trades whose exit time is null.
NullExitIdx == {i \in Indices : df.rows[i].exit = NaT}
\* The gaps are taken after the merged intervals whose end is a time.
FlatPeriodsRule(max_flat_period, avg_flat_period) ==
    LET merged == Merged(df.rows)
        between == 1..(Len(merged) - 1)
        known == {i \in between : merged[i][2] # NaT}
        gap == [i \in known |-> merged[i + 1][1] - merged[i][2]]
    IN /\ between = {} => (max_flat_period = 0 /\ avg_flat_period.num = 0)
       /\ known # {} =>
             /\ \E i \in known : max_flat_period = gap[i]
             /\ \A i \in known : gap[i] <= max_flat_period
             /\ RatEq(avg_flat_period, Rat(SumOver(known, gap), Cardinality(known)))
       /\ NullExitIdx = {} =>
             /\ \A s \in IdleSpans : s[2] - s[1] <= max_flat_period
             /\ max_flat_period > 0 => \E s \in IdleSpans : s[2] - s[1] = max_flat_period
             /\ (Len(df.rows) = 2 /\ df.rows[1].exit < df.rows[2].entry) =>
                   max_flat_period = df.rows[2].entry - df.rows[1].exit
C9_FlatPeriods ==
    /\ NonEmptyStats =>
          FlatPeriodsRule(out.stats.max_flat_period, out.stats.avg_flat_period)
    /\ (pc = "recovery" /\ df.rows # <<>>) =>
          FlatPeriodsRule(out.periods.max_flat_period, out.periods.avg_flat_period)

\* The same statement for trade sets in which every exit time is a time.
C9_WhenExitsAreTimes == NullExitIdx # {} \/ C9_FlatPeriods

\* A trade without an exit time, then one on day 1 and one on day 2: the
\* gaps are NaT and one day; the average reported is one day, the maximum
\* reported is NaT.
C9_NullExitCase ==
    /\ NonEmptyStats
    /\ Column(df.rows, "entry") = <<0, MinutesPerDay, 2 * MinutesPerDay>>
    /\ Column(df.rows, "exit") = <<NaT, MinutesPerDay, 2 * MinutesPerDay>>
    /\ out.stats.max_flat_period = NaT
    /\ RatEq(out.stats.avg_flat_period, Rat(MinutesPerDay, 1))

\* The trade without an exit time in the middle: the gaps are one day and
\* NaT, and the maximum reported is one day.
C9_NullExitLater ==
    /\ NonEmptyStats
    /\ Column(df.rows, "entry") = <<0, MinutesPerDay, 2 * MinutesPerDay>>
    /\ Column(df.rows, "exit") = <<0, NaT, 2 * MinutesPerDay>>
    /\ out.stats.max_flat_period = MinutesPerDay
    /\ RatEq(out.stats.avg_flat_period, Rat(MinutesPerDay, 1))

\* Two trades two days apart: the flat period is exactly two days.
C9_Witness ==
    /\ NonEmptyStats
    /\ Len(df.rows) = 2
    /\ df.rows[1].exit = 0
    /\ df.rows[2].entry = 2 * MinutesPerDay
    /\ out.stats.max_flat_period = 2 * MinutesPerDay
    /\ RatEq(out.stats.avg_flat_period, Rat(2 * MinutesPerDay, 1))

\* C10: on an empty trade set no operation of the statistics engine or of
\* the temporal aggregators raises; each returns its empty result: the empty
\* report with empty series, zero durations and 0.0 percent, the empty table.
C10_EmptyInput ==
    (pc # "ready" /\ df.rows = <<>>) =>
        /\ out.ok
        /\ pc = "stats" =>
              /\ DOMAIN out.stats = {}
              /\ out.equity_curve = <<>>
              /\ out.drawdown = <<>>
        /\ pc = "recovery" =>
              /\ out.periods.max_time_to_recover = 0
              /\ out.periods.max_flat_period = 0
              /\ out.periods.avg_flat_period.num = 0
              /\ out.periods.pct_time_in_market.num = 0
        /\ pc = "dow" => out.table = <<>>
        /\ pc \in {"daily", "window"} =>
              /\ DOMAIN out.stats = {}
              /\ out.table = <<>>

\* The column-less frame the combiner returns when nothing survives is
\* given to computeStatistics.
C10_Witness ==
    /\ pc = "stats"
    /\ df = EmptyDataFrame
    /\ out.ok
    /\ DOMAIN out.stats = {}

(***************************************************************************)
(* Claims about the loader and normalizer, stated against the trade file   *)
(* fs and the arguments req.                                               *)
(***************************************************************************)
LoadedOk == pc = "loaded" /\ out.ok
InRequestedRange(raw) ==
    /\ req.start_date.t <= raw.entry.t
    /\ raw.entry.t < req.end_date.t + MinutesPerDay
IsDate(d) == d.t % MinutesPerDay = 0
Present(raw, rows) ==
    \E j \in 1..Len(rows) : rows[j].entry = raw.entry.t /\ rows[j].pos = raw.pos

\* C11: a load that succeeds returns exactly the rows of the file whose
\* entry time t satisfies start <= t < end + 1 day, in ascending entry-time
\* order, for date strings and for parsed dates alike; with a date as end
\* argument every trade entered on the end date (from the start on) is kept
\* and none entered on a later date is.
C11_DateRangeFilter ==
    LoadedOk =>
        LET kept == SelectSeq(fs.rows, InRequestedRange)
            rows == out.df.rows
        IN /\ SameBag(rows, ParsedRows(kept))
           /\ IsSortedByEntry(rows)
           /\ out.df.cols = fs.cols
           /\ IsDate(req.end_date) =>
                 /\ \A j \in 1..Len(rows) :
                       DateOf(rows[j].entry) <= DateOf(req.end_date.t)
                 /\ \A i \in 1..Len(fs.rows) :
                       (/\ DateOf(fs.rows[i].entry.t) = DateOf(req.end_date.t)
                        /\ fs.rows[i].entry.t >= req.start_date.t)
                          => Present(fs.rows[i], rows)

\* Date strings: the file lists the last minute of the end date before
\* 00:00:00 of the start date; both are returned, in entry order.
C11_Witness ==
    /\ LoadedOk
    /\ req.start_date = DateStr(1) /\ req.end_date = DateStr(MaxDay)
    /\ Len(fs.rows) = 2
    /\ fs.rows[1].entry.t = MaxDay * MinutesPerDay + MinutesPerDay - 1
    /\ fs.rows[2].entry.t = MinutesPerDay
    /\ Column(out.df.rows, "entry") =
           <<MinutesPerDay, MaxDay * MinutesPerDay + MinutesPerDay - 1>>

\* Eighteen trades entered in turn at minute 0 and at minute 1: ascending
\* entry order, the trades of one minute not in the file's order.
C11_ManyRows ==
    /\ LoadedOk
    /\ fs = ManyRowsFile
    /\ IsSortedByEntry(out.df.rows)
    /\ ValuesOf(Column(out.df.rows, "profit")) =
           <<1, 15, 13, 11, 17, 7, 9, 5, 3, 8, 10, 4, 12, 14, 2, 16, 6, 18>>

\* Parsed dates: a trade entered at 00:00:00 of the day after the end date
\* is left out, the one entered in the last minute of the end date is kept.
C11_ParsedDates ==
    /\ LoadedOk
    /\ req.start_date = DateTime(0) /\ req.end_date = DateTime(0)
    /\ Column(fs.rows, "entry") =
           <<TimeCell(MinutesPerDay), TimeCell(MinutesPerDay - 1)>>
    /\ Column(out.df.rows, "entry") = <<MinutesPerDay - 1>>

\* C12: a file with a header that lacks Entry time or Exit time fails with
\* the missing-columns ValueError, which names every missing required
\* column and lists the columns the file has; no trade set is returned.
LacksRequired == {c \in {"Entry time", "Exit time"} : c \notin fs.cols}
C12_SchemaError ==
    (pc = "loaded" /\ fs.kind = "csv" /\ LacksRequired # {}) =>
        /\ ~out.ok
        /\ out.error = "ValueError"
        /\ out.reason = "CSV missing required columns"
        /\ {out.missing[i] : i \in 1..Len(out.missing)} = LacksRequired
        /\ Len(out.missing) = Cardinality(LacksRequired)
        /\ out.available = fs.cols
        /\ "df" \notin DOMAIN out

\* The file has trades but neither time column: both are named.
C12_Witness ==
    /\ pc = "loaded"
    /\ fs = CsvFile(TradeColumns \ {"Entry time", "Exit time"}, <<LongRow>>)
    /\ ~out.ok
    /\ out.missing = <<"Entry time", "Exit time">>
    /\ out.available = {"Profit", "Market pos."}

\* The documented case: only Exit time is missing.
C12_ExitTimeMissing ==
    /\ pc = "loaded"
    /\ fs = CsvFile(TradeColumns \ {"Exit time"}, <<LongRow>>)
    /\ out.missing = <<"Exit time">>

\* C13: NotFound for an absent file, EmptyData for a file without data rows,
\* and an empty set, not an error, for a well-formed file none of whose
\* rows is in the requested range.
EmptyDataReasons == {"CSV file is empty", "CSV file contains no data rows"}
IsEmptyData(o) == ~o.ok /\ o.error = "ValueError" /\ o.reason \in EmptyDataReasons
IsNotFound(o) == ~o.ok /\ o.error = "FileNotFoundError"
WellFormed ==
    /\ fs.kind = "csv"
    /\ LacksRequired = {}
    /\ \A i \in 1..Len(fs.rows) : fs.rows[i].entry.valid /\ fs.rows[i].exit.valid
    /\ req.start_date.valid /\ req.end_date.valid
NoneInRange ==
    /\ WellFormed
    /\ fs.rows # <<>>
    /\ \A i \in 1..Len(fs.rows) : ~InRequestedRange(fs.rows[i])
\* A zero-byte file, or a header without rows under it.
NoDataRows == fs.kind = "empty" \/ (fs.kind = "csv" /\ fs.rows = <<>>)
NotFoundAndRangeRule ==
    /\ fs.kind = "absent" => IsNotFound(out)
    /\ NoneInRange => (out.ok /\ out.df.rows = <<>>)

\* C13 as stated: every file with zero data rows fails with EmptyData.
C13_ErrorKinds ==
    pc = "loaded" =>
        /\ NotFoundAndRangeRule
        /\ NoDataRows => IsEmptyData(out)

\* C13 amended: a file with zero data rows fails with EmptyData when it is a
\* zero-byte file or its header has both required columns; a header-only
\* file that lacks a required column fails with the missing-columns error.
C13_ErrorKindsByPrecedence ==
    pc = "loaded" =>
        /\ NotFoundAndRangeRule
        /\ NoDataRows =>
              IF fs.kind = "csv" /\ LacksRequired # {}
              THEN ~out.ok /\ out.reason = "CSV missing required columns"
              ELSE IsEmptyData(out)

\* A file that read_csv cannot read fails with a ValueError of its own.
C13_UnreadableFile ==
    /\ pc = "loaded"
    /\ fs = UnreadableFile
    /\ ~out.ok /\ out.error = "ValueError"
    /\ out.reason = "Failed to read CSV file"

\* A header-only file without the Exit time column.
C13_Witness ==
    /\ pc = "loaded"
    /\ fs = CsvFile(TradeColumns \ {"Exit time"}, <<>>)
    /\ ~out.ok
    /\ out.reason = "CSV missing required columns"

\* A file whose only trades lie after the requested range loads as an empty
\* set.
C13_NoneInRange ==
    /\ pc = "loaded"
    /\ NoneInRange
    /\ out.ok
    /\ out.df.rows = <<>>

\* C14: with multiplier 1 or an empty set the multiplier returns the input
\* set itself, every value identical; otherwise it returns the same rows in
\* the same order, each of Profit, MAE, MFE, ETD, Commission and the four
\* fee columns being the multiplier times the input value (a null stays
\* null) and every other field as it was; the input set is left unmodified.
ScaledFields ==
    {"profit", "MAE", "MFE", "ETD", "Commission", "Clearing Fee", "Exchange Fee",
     "IP Fee", "NFA Fee"}
TimesM(x, m) == IF x.nan THEN x ELSE [x EXCEPT !.v = m * x.v]
C14_Multiplier ==
    pc = "scaled" =>
        LET input == res.df
            m == req.multiplier
            result == out.df
        IN /\ df = input
           /\ (m = 1 \/ input.rows = <<>>) => (out.is_input /\ result = input)
           /\ ~(m = 1 \/ input.rows = <<>>) =>
                 /\ result.cols = input.cols
                 /\ Len(result.rows) = Len(input.rows)
                 /\ \A i \in 1..Len(input.rows) :
                       /\ DOMAIN result.rows[i] = DOMAIN input.rows[i]
                       /\ \A f \in DOMAIN input.rows[i] :
                             result.rows[i][f] =
                                 IF f \in ScaledFields
                                 THEN TimesM(input.rows[i][f], m)
                                 ELSE input.rows[i][f]

\* A set with a commission and a cumulative-profit column is scaled by the
\* largest multiplier: profit and commission are multiplied, the cumulative
\* profit is not.
C14_Witness ==
    /\ pc = "scaled"
    /\ req.multiplier = MaxContracts
    /\ FeeColumns \subseteq res.df.cols
    /\ Len(out.df.rows) = MaxRows
    /\ out.df.rows[1].profit = Num(3 * MaxContracts)
    /\ out.df.rows[1]["Commission"] = Num(MaxContracts)
    /\ out.df.rows[1]["Cum. net profit"] = Num(7)
    /\ res.df.rows[1].profit = Num(3)
    /\ ~out.is_input

\* Multiplier 1 on a set with trades: the input itself comes back.
C14_NoOp ==
    /\ pc = "scaled"
    /\ req.multiplier = 1
    /\ res.df.rows # <<>>
    /\ out.is_input
    /\ out.df = res.df

\* C15: the direction filter returns the set unchanged when the mode is All
\* or the set has no position column; with Long Only it returns exactly the
\* trades whose position is Long, with Short Only exactly those whose
\* position is Short, in their original order; filtering the result again
\* with the same mode changes nothing.
WithPosition(rows, pos) == {i \in 1..Len(rows) : rows[i].pos = pos}
NthOf(I, k) == CHOOSE i \in I : Cardinality({j \in I : j < i}) = k - 1
IsSelection(result, rows, I) ==
    /\ Len(result) = Cardinality(I)
    /\ \A k \in 1..Len(result) : result[k] = rows[NthOf(I, k)]
C15_DirectionFilter ==
    pc \in {"filtered", "refiltered"} =>
        LET input == res.df
            mode == req.direction
            absent == "Market pos." \notin input.cols
        IN /\ df = input
           /\ (mode = "All" \/ absent) => out.df = input
           /\ (mode = "Long Only" /\ ~absent) =>
                 /\ out.df.cols = input.cols
                 /\ IsSelection(out.df.rows, input.rows, WithPosition(input.rows, "Long"))
           /\ (mode = "Short Only" /\ ~absent) =>
                 /\ out.df.cols = input.cols
                 /\ IsSelection(out.df.rows, input.rows, WithPosition(input.rows, "Short"))
           /\ (pc = "refiltered" /\ mode \in Directions) => out.df = input

\* Short Only on a long trade followed by a short one keeps the short one.
C15_Witness ==
    /\ pc = "filtered"
    /\ req.direction = "Short Only"
    /\ Column(res.df.rows, "pos") = <<"Long", "Short">>
    /\ Column(out.df.rows, "pos") = <<"Short">>
    /\ out.df.rows[1] = res.df.rows[2]

\* Long Only applied to a set already filtered with Long Only.
C15_Twice ==
    /\ pc = "refiltered"
    /\ req.direction = "Long Only"
    /\ out.df = res.df
    /\ Len(out.df.rows) = 1
    /\ Len(fs.rows) = 2

\* Long Only on a set without a position column.
C15_NoPositionColumn ==
    /\ pc = "filtered"
    /\ req.direction = "Long Only"
    /\ "Market pos." \notin res.df.cols
    /\ res.df.rows # <<>>
    /\ out.df = res.df

(***************************************************************************)
(* Claims about the temporal aggregators, stated against the trade set df. *)
(***************************************************************************)
Weekdays == {DayOfWeek(df.rows[i].entry) : i \in Indices}
OnWeekday(d) == {i \in Indices : DayOfWeek(df.rows[i].entry) = d}

\* C16: the breakdown has one row for each weekday on which a trade of the
\* set was entered and none for the other weekdays, in Monday-to-Sunday
\* order; the count, total, win and loss counts, win rate and gross profit
\* and loss of a row are those of the trades entered on its weekday, and the
\* counts of the rows add up to the number of trades.
C16_DayOfWeekBreakdown ==
    (pc = "dow" /\ df.rows # <<>>) =>
        LET table == out.table
            rows == 1..Len(table)
        IN /\ out.ok
           /\ {table[k].day_of_week : k \in rows} = Weekdays
           /\ Len(table) = Cardinality(Weekdays)
           /\ \A k \in rows : k < Len(table) =>
                 table[k].day_of_week < table[k + 1].day_of_week
           /\ \A k \in rows :
                 LET I == OnWeekday(table[k].day_of_week)
                     wins == I \cap WinIdx
                     losses == I \cap LossIdx
                 IN /\ table[k].day_of_week \in 0..6
                    /\ table[k].day_name = DayNames[table[k].day_of_week + 1]
                    /\ table[k].number_of_trades = Cardinality(I)
                    /\ table[k].number_of_trades > 0
                    /\ table[k].total_net_profit = TotalAt(I)
                    /\ table[k].number_of_winning_trades = Cardinality(wins)
                    /\ table[k].number_of_losing_trades = Cardinality(losses)
                    /\ RatEq(table[k].percent_profitable,
                             Rat(PercentScale * Cardinality(wins), Cardinality(I)))
                    /\ table[k].gross_profit = SumAt(wins)
                    /\ table[k].gross_loss = SumAt(losses)
           /\ SumOver(rows, [k \in rows |-> table[k].number_of_trades]) = Len(df.rows)

\* A set entered on a Sunday and on the Monday after it: the Monday row
\* comes first, there are two rows, and the Monday row has its one winner.
C16_Witness ==
    /\ pc = "dow"
    /\ Column(df.rows, "entry") = <<6 * MinutesPerDay, 6 * MinutesPerDay, 7 * MinutesPerDay>>
    /\ Column(df.rows, "profit") = <<Num(2), Num(-1), Num(2)>>
    /\ Len(out.table) = 2
    /\ out.table[1].day_name = "Monday"
    /\ out.table[1].number_of_trades = 1
    /\ out.table[1].gross_profit = 2
    /\ out.table[2].day_name = "Sunday"
    /\ out.table[2].number_of_trades = 2
    /\ out.table[2].total_net_profit = Num(1)
    /\ RatEq(out.table[2].percent_profitable, Rat(PercentScale, 2))

\* The groups of the concurrency reports, read from df: the entry date of a
\* trade, or the start of the 5-minute slot [k * 5min, (k + 1) * 5min) its
\* entry time falls in.
KeyAt(i, by) ==
    IF by = "Date" THEN df.rows[i].entry \div MinutesPerDay
    ELSE WindowMinutes * (df.rows[i].entry \div WindowMinutes)
Keys(by) == {KeyAt(i, by) : i \in Indices}
EnteredIn(by, k) == {i \in Indices : KeyAt(i, by) = k}
InstrumentsIn(by, k) == {df.rows[i].instrument : i \in EnteredIn(by, k)}
CountIn(by, k) == Cardinality(InstrumentsIn(by, k))
NameRank(n) == CHOOSE j \in 1..Len(InstrumentOrder) : InstrumentOrder[j] = n
IsSortedNames(names) ==
    \A j \in 1..(Len(names) - 1) : NameRank(names[j]) < NameRank(names[j + 1])
Elems(s) == {s[j] : j \in 1..Len(s)}
IsAscending(s) == \A j \in 1..(Len(s) - 1) : s[j] < s[j + 1]

\* max, min and average of the instrument counts over the groups that have
\* a trade, the number of groups and the distribution of the counts.
CountsRule(by, max, min, avg, total, distribution) ==
    /\ total = Cardinality(Keys(by))
    /\ \E k \in Keys(by) : CountIn(by, k) = max
    /\ \E k \in Keys(by) : CountIn(by, k) = min
    /\ \A k \in Keys(by) : min <= CountIn(by, k) /\ CountIn(by, k) <= max
    /\ RatEq(avg, Rat(SumOver(Keys(by), [k \in Keys(by) |-> CountIn(by, k)]),
                      Cardinality(Keys(by))))
    /\ DOMAIN distribution = {CountIn(by, k) : k \in Keys(by)}
    /\ \A n \in DOMAIN distribution :
          distribution[n] = Cardinality({k \in Keys(by) : CountIn(by, k) = n})
    /\ SumOver(DOMAIN distribution, distribution) = Cardinality(Keys(by))

\* The listed groups are the first `limit` groups achieving the max, each
\* paired with the sorted names of its instruments.
MaxListRule(by, max, listed, names, limit) ==
    LET achieving == {k \in Keys(by) : CountIn(by, k) = max}
    IN /\ Len(listed) = Min2(limit, Cardinality(achieving))
       /\ IsAscending(listed)
       /\ Elems(listed) \subseteq achieving
       /\ \A k \in achieving \ Elems(listed) : \A j \in 1..Len(listed) : listed[j] < k
       /\ DOMAIN names = Elems(listed)
       /\ \A k \in DOMAIN names :
             /\ Elems(names[k]) = InstrumentsIn(by, k)
             /\ IsSortedNames(names[k])

\* The per-group profits, one for each group, add up to the set's total.
GroupProfitRule(by, data) ==
    /\ Len(data) = Cardinality(Keys(by))
    /\ {data[j].key : j \in 1..Len(data)} = Keys(by)
    /\ Num(SumSeq(Column(data, "profit"))) = TotalAt(Indices)

DailyCountsRule ==
    /\ out.ok
    /\ CountsRule("Date", out.stats.max_instruments, out.stats.min_instruments,
                  out.stats.avg_instruments, out.stats.total_trading_days,
                  out.stats.distribution)
    /\ MaxListRule("Date", out.stats.max_instruments, out.stats.max_instrument_days,
                   out.stats.max_day_instruments, Cardinality(Keys("Date")))
DailyReport == pc = "daily" /\ df.rows # <<>>

\* C17: the daily report groups the trades by entry date and counts the
\* distinct instruments of each date; max, min and average are over the
\* dates with a trade; the max dates are exactly the dates whose count is
\* the max, each with its instrument names in sorted order; the distribution
\* maps each count to the number of dates with it and sums to the number of
\* trading dates; the per-date profits sum to the set's total profit.
C17_DailyConcurrency ==
    DailyReport => (DailyCountsRule /\ GroupProfitRule("Date", out.stats.daily_data))

\* The same statement for the trade sets in which every profit is a number.
C17_WhenNoProfitIsNull ==
    (DailyReport /\ NoNullProfit) =>
        (DailyCountsRule /\ GroupProfitRule("Date", out.stats.daily_data))

\* The counts, lists and distribution of the daily report, for every set.
C17_DailyCounts == DailyReport => DailyCountsRule

\* Two instruments on the first date, one on the second, every profit a
\* number: max 2, min 1, average 3/2, one max date with names A, B.
C17_NumericCase ==
    /\ DailyReport
    /\ Column(df.rows, "entry") = <<0, WindowMinutes, MinutesPerDay>>
    /\ Column(df.rows, "instrument") = <<"B", "A", "A">>
    /\ Column(df.rows, "profit") = <<Num(-1), Num(2), Num(2)>>
    /\ out.stats.max_instruments = 2
    /\ out.stats.min_instruments = 1
    /\ RatEq(out.stats.avg_instruments, Rat(3, 2))
    /\ out.stats.max_instrument_days = <<0>>
    /\ out.stats.max_day_instruments[0] = <<"A", "B">>
    /\ out.stats.distribution = (1 :> 1) @@ (2 :> 1)
    /\ Column(out.stats.daily_data, "profit") = <<1, 2>>

\* A null profit on a date with a loss: the date's profit is -1, the sum of
\* the per-date profits a number, the set's total profit null.
C17_NullCase ==
    /\ DailyReport
    /\ Column(df.rows, "profit") = <<NaN, Num(-1), Num(2)>>
    /\ Column(df.rows, "entry") = <<0, 0, MinutesPerDay>>
    /\ Column(out.stats.daily_data, "profit") = <<-1, 2>>
    /\ TotalAt(Indices) = NaN

\* The detail table holds the `limit` groups with the highest instrument
\* counts, highest first, each with its sorted instrument names.
DetailsRule(by, details, limit) ==
    LET listed == {details[j].key : j \in 1..Len(details)}
    IN /\ Len(details) = Min2(limit, Cardinality(Keys(by)))
       /\ Cardinality(listed) = Len(details)
       /\ listed \subseteq Keys(by)
       /\ \A j \in 1..Len(details) :
             /\ details[j].num_instruments = CountIn(by, details[j].key)
             /\ Elems(details[j].instruments) = InstrumentsIn(by, details[j].key)
             /\ IsSortedNames(details[j].instruments)
             /\ j < Len(details) =>
                   details[j].num_instruments >= details[j + 1].num_instruments
             /\ \A k \in Keys(by) \ listed :
                   details[j].num_instruments >= CountIn(by, k)

\* C18: the window report is the daily analysis with the entry time floored
\* to its 5-minute slot as the group: one group per slot that has an entry,
\* max, min, average and distribution over all the windows; the windows
\* listed as achieving the max are the first MaxWindowsShown of them, and
\* the detail table holds the MaxWindowDetails windows with the highest
\* instrument counts.
C18_WindowConcurrency ==
    (pc = "window" /\ df.rows # <<>>) =>
        /\ out.ok
        /\ {out.table[j].key : j \in 1..Len(out.table)} = Keys("Time_Window")
        /\ Len(out.table) = Cardinality(Keys("Time_Window"))
        /\ \A j \in 1..Len(out.table) :
              out.table[j].num_instruments = CountIn("Time_Window", out.table[j].key)
        /\ CountsRule("Time_Window", out.stats.max_instruments,
                      out.stats.min_instruments, out.stats.avg_instruments,
                      out.stats.total_windows, out.stats.distribution)
        /\ MaxListRule("Time_Window", out.stats.max_instruments,
                       out.stats.max_instrument_windows,
                       out.stats.max_window_instruments, MaxWindowsShown)
        /\ DetailsRule("Time_Window", out.stats.window_details, MaxWindowDetails)

\* One more window than the detail table holds: every window but the first
\* has two instruments; the first MaxWindowsShown of them are listed, the
\* detail table leaves the first window out, the figures count them all.
C18_Witness ==
    /\ pc = "window"
    /\ df.rows = ManyWindows
    /\ out.stats.total_windows = MaxWindowDetails + 1
    /\ out.stats.max_instruments = 2
    /\ out.stats.min_instruments = 1
    /\ out.stats.distribution = (1 :> 1) @@ (2 :> MaxWindowDetails)
    /\ out.stats.max_instrument_windows =
           [j \in 1..MaxWindowsShown |-> j * WindowMinutes]
    /\ DOMAIN out.stats.max_window_instruments =
           {j * WindowMinutes : j \in 1..MaxWindowsShown}
    /\ Len(out.stats.window_details) = MaxWindowDetails
    /\ \A j \in 1..MaxWindowDetails : out.stats.window_details[j].key # 0

\* Entries 4 and 5 minutes after midnight fall in different windows, entries
\* 0 and 4 minutes after midnight in the same one.
C18_SlotBoundary ==
    /\ pc = "window"
    /\ Column(df.rows, "entry") = <<0, WindowMinutes - 1, WindowMinutes>>
    /\ Column(df.rows, "instrument") = <<"A", "B", "A">>
    /\ out.stats.max_instrument_windows = <<0>>
    /\ out.stats.max_window_instruments[0] = <<"A", "B">>
    /\ out.stats.total_windows = 2

(***************************************************************************)
(* Claims about instrument discovery, stated against the folder fs.        *)
(***************************************************************************)
Listed == {fs.files[i] : i \in 1..Len(fs.files)}
TradesFilesOf(prefix) == {f \in Listed : StrLower(f) = prefix \o "-trades.csv"}
SummaryFilesOf(prefix) == {f \in Listed : StrLower(f) = prefix \o "-summary.csv"}
\* The lower-cased prefixes of the listed names that end in one of the two
\* suffixes, whatever the case of the name.
ListedPrefixes ==
    {DropSuffix(StrLower(f), "-trades.csv") :
        f \in {g \in Listed : EndsWith(StrLower(g), "-trades.csv")}}
    \cup {DropSuffix(StrLower(f), "-summary.csv") :
        f \in {g \in Listed : EndsWith(StrLower(g), "-summary.csv")}}
Paired(prefix) == TradesFilesOf(prefix) # {} /\ SummaryFilesOf(prefix) # {}
CodeOf(prefix) == StrUpper(StrReplace(StrReplace(prefix, "roa305-", ""), "-", ""))
\* Two strings are the same but for the case of their letters.
CasePairs ==
    {<<CharAt(UpperLetters, i), CharAt(LowerLetters, i)>> : i \in 1..Len(UpperLetters)}
SameLetter(c, d) == c = d \/ <<c, d>> \in CasePairs \/ <<d, c>> \in CasePairs
SameIgnoringCase(a, b) ==
    Len(a) = Len(b) /\ \A i \in 1..Len(a) : SameLetter(CharAt(a, i), CharAt(b, i))

\* The file name is a prefix followed by the suffix in any case; the prefix
\* is the name as it is spelled, without the suffix.
Suffixed(f, suffix) ==
    /\ Len(f) >= Len(suffix)
    /\ SameIgnoringCase(SubSeq(f, Len(f) - Len(suffix) + 1, Len(f)), suffix)
NamePrefix(f, suffix) == SubSeq(f, 1, Len(f) - Len(suffix))
SuffixedFiles(suffix) == {f \in Listed : Suffixed(f, suffix)}
NamedPrefixes ==
    {NamePrefix(f, "-trades.csv") : f \in SuffixedFiles("-trades.csv")}
        \cup {NamePrefix(f, "-summary.csv") : f \in SuffixedFiles("-summary.csv")}
\* The files of a prefix, the prefix spelled as given.
FilesNamed(prefix, suffix) ==
    {f \in SuffixedFiles(suffix) : NamePrefix(f, suffix) = prefix}
\* The files of a prefix, the prefix spelled in any case.
FilesLike(prefix, suffix) ==
    {f \in SuffixedFiles(suffix) : SameIgnoringCase(NamePrefix(f, suffix), prefix)}
\* The path of a file of the folder.
FileIn(folder, f) ==
    IF EndsWith(folder, "/") THEN folder \o f ELSE folder \o "/" \o f
\* The instrument of the code has the short code of the prefix and its
\* sources are a trades file and a summary file out of the two sets.
InstrumentOf(code, prefix, trades_files, summary_files) ==
    /\ trades_files # {} /\ summary_files # {}
    /\ code = CodeOf(StrLower(prefix))
    /\ \E f \in trades_files : out.instruments[code].trades = FileIn(req.folder, f)
    /\ \E f \in summary_files : out.instruments[code].summary = FileIn(req.folder, f)

\* C19: every instrument a call returns comes from a prefix that has both
\* a <prefix>-trades.csv and a <prefix>-summary.csv file in the folder,
\* the prefix spelled the same in both and the suffix in any case, so that
\* a prefix with one of the two files gives no instrument; its code is that
\* prefix without the account token and the hyphens, in upper case, and
\* its sources are the two files; a missing folder gives the empty mapping.
C19_Discovery ==
    pc = "found" =>
        /\ ~fs.exists => out.instruments = EmptyDict
        /\ \A code \in DOMAIN out.instruments :
              \E prefix \in NamedPrefixes :
                  InstrumentOf(code, prefix, FilesNamed(prefix, "-trades.csv"),
                               FilesNamed(prefix, "-summary.csv"))

\* C19, with the whole name matched in any case: every instrument a call
\* returns comes from a prefix that has both a -trades.csv and a
\* -summary.csv file in the folder, prefix and suffix compared without
\* regard to case, so that a prefix with one of the two files gives no
\* instrument; its code is the lower-cased prefix without the account token
\* and the hyphens, in upper case, and its sources are a trades and a
\* summary file of that prefix; every prefix with both files has its code
\* in the mapping; a missing folder gives the empty mapping.
C19_DiscoveryIgnoringCase ==
    pc = "found" =>
        /\ ~fs.exists => out.instruments = EmptyDict
        /\ \A code \in DOMAIN out.instruments :
              \E prefix \in NamedPrefixes :
                  InstrumentOf(code, prefix, FilesLike(prefix, "-trades.csv"),
                               FilesLike(prefix, "-summary.csv"))
        /\ \A prefix \in NamedPrefixes :
              (FilesLike(prefix, "-trades.csv") # {}
                   /\ FilesLike(prefix, "-summary.csv") # {})
                  => CodeOf(StrLower(prefix)) \in DOMAIN out.instruments

\* The trades file is named in upper case and paired with a lower-case
\* summary; a second prefix has only its trades file and a third only its
\* summary, and their codes would agree: one instrument, GC55.
C19_Witness ==
    /\ pc = "found"
    /\ Listed = {"GC55-TRADES.CSV", "gc55-summary.csv", "ES-trades.csv",
                 "roa305-es-summary.csv"}
    /\ FilesNamed("GC55", "-summary.csv") = {}
    /\ DOMAIN out.instruments = {"GC55"}
    /\ out.instruments["GC55"].trades = "data/GC55-TRADES.CSV"
    /\ out.instruments["GC55"].summary = "data/gc55-summary.csv"

\* The account token and the hyphens are removed from the code.
C19_AccountToken ==
    /\ pc = "found"
    /\ req.folder = "data"
    /\ Listed = {"ROA305-GC-55-trades.csv", "ROA305-GC-55-Summary.csv"}
    /\ DOMAIN out.instruments = {"GC55"}
    /\ out.instruments["GC55"].trades = "data/ROA305-GC-55-trades.csv"

\* Two paired prefixes with the same code: one instrument, from either.
C19_SameCode ==
    /\ pc = "found"
    /\ Listed = {"ROA305-GC-55-trades.csv", "ROA305-GC-55-Summary.csv",
                 "gc55-Trades.csv", "gc55-summary.csv"}
    /\ DOMAIN out.instruments = {"GC55"}
    /\ out.instruments["GC55"].trades = "data/gc55-Trades.csv"

\* The folder is missing.
C19_MissingFolder ==
    /\ pc = "found"
    /\ ~fs.exists
    /\ out.instruments = EmptyDict

\* The folder is given with a trailing separator: none is added.
C19_TrailingSeparator ==
    /\ pc = "found"
    /\ req.folder = "data/"
    /\ Listed = {"gc55-Trades.csv", "gc55-summary.csv"}
    /\ out.instruments["GC55"].trades = "data/gc55-Trades.csv"

\* Letters outside ASCII: É and é are one prefix, and ß is SS in the code.
C19_Latin1 ==
    /\ pc = "found"
    /\ Listed = {"Éß-trades.csv", "éß-Summary.csv"}
    /\ DOMAIN out.instruments = {"ÉSS"}
    /\ out.instruments["ÉSS"].summary = PathJoin(req.folder, "éß-Summary.csv")

\* The path is a file: the call ends with the error of os.listdir.
C19_NotADirectory ==
    /\ pc = "raised"
    /\ fs.exists
    /\ out = Raise("NotADirectoryError")

(***************************************************************************)
(* Free trials: payments.models.Trial, payments.utils.start_trial.         *)
(* Workers run start_trial at the same time, each inside its own database  *)
(* transaction (transaction.atomic).  A query of a transaction sees the    *)
(* committed rows and the rows the transaction wrote itself.               *)
(***************************************************************************)
TRIAL_DURATION_DAYS == 7
Workers == 1..MaxWorkers
NotSet == -1            \* a date field that is NULL

\* An account with a registered machine and one without a machine ID.
FirstAccount == [email |-> "a@x.io", machine_id_hash |-> "h1"]
Users == {FirstAccount, [email |-> "d@x.io", machine_id_hash |-> ""]}
Strategies == {"ROA305", "ROA306"}
\* The calls made: every strategy for an account with a machine ID, one
\* strategy for an account without.
TrialRequests ==
    {r \in [user : Users, strategy_name : Strategies] :
        r.user.machine_id_hash = "" => r.strategy_name = "ROA305"}

has_machine_id(user) == user.machine_id_hash # ""

NoWrites == [trials |-> <<>>, log |-> {}]
NoCall == [strategy_name |-> ""]     \* the worker has not been called yet
VisibleTrials(db, own) == db.trials \o own.trials
VisibleLog(db, own) == db.log \cup own.log

\* cls.objects.filter(user=user, strategy_name=strategy_name)
TrialsOf(trials, user, strategy_name) ==
    SelectSeq(trials, LAMBDA t : t.user = user.email /\ t.strategy_name = strategy_name)

AlreadyUsed == "You have already used your trial for this strategy"
NoMachineId == "Please set your machine ID first"
Suspicious == "Suspicious trial activity detected. Please contact support."

can_user_start_trial(trials, user, strategy_name) ==
    IF Len(TrialsOf(trials, user, strategy_name)) > 0
    THEN [ok |-> FALSE, reason |-> AlreadyUsed]
    ELSE IF ~has_machine_id(user)
         THEN [ok |-> FALSE, reason |-> NoMachineId]
         ELSE [ok |-> TRUE, reason |-> "OK"]

LogRow(user, strategy_name, blocked) ==
    [email |-> user.email, machine_id_hash |-> user.machine_id_hash,
     strategy_name |-> strategy_name, blocked |-> blocked]

\* detect_trial_abuse runs two COUNT queries, each on the log as it is
\* when the query runs.
\* filter(machine_id_hash=...).values('email').distinct().count()
different_emails(log, user) ==
    Cardinality({r.email : r \in {x \in log :
                    x.machine_id_hash = user.machine_id_hash}})
\* filter(email=...).values('machine_id_hash').distinct().count()
different_machines(log, user) ==
    Cardinality({r.machine_id_hash : r \in {x \in log : x.email = user.email}})

NewTrial(user, strategy_name, now) ==
    [user |-> user.email, strategy_name |-> strategy_name,
     machine_id_snapshot |-> user.machine_id_hash,
     started_at |-> now, ends_at |-> now + TRIAL_DURATION_DAYS,
     status |-> "active", deactivated_at |-> NotSet]

SameKey(t, row) == t.user = row.user /\ t.strategy_name = row.strategy_name

\* Mutant: the table has no unique_together constraint.
UniqueTogether_unenforced(trials, row) == TRUE
\* unique_together = [['user', 'strategy_name']]: the rows of the table
\* allow the insertion of row.
UniqueTogether(trials, row) ==
    \A i \in 1..Len(trials) : ~SameKey(trials[i], row)

\* What Trial.check_and_expire returns at the time now for the instance
\* t it is called on: True when it expires it.
check_and_expire_returns(t, now) == t.status = "active" /\ t.ends_at <= now

\* The instance after Trial.check_and_expire.
check_and_expire(t, now) ==
    IF check_and_expire_returns(t, now)
    THEN [t EXCEPT !.status = "expired", !.deactivated_at = now]
    ELSE t

\* A deleted row: the primary key is not used again.
DeletedRow ==
    [user |-> "", strategy_name |-> "", machine_id_snapshot |-> "",
     started_at |-> NotSet, ends_at |-> NotSet, status |-> "",
     deactivated_at |-> NotSet]

\* save(update_fields=['status', 'deactivated_at']): the UPDATE writes the
\* two fields of the instance to the row with its primary key.
SaveStatus(row, instance) ==
    [row EXCEPT !.status = instance.status,
                !.deactivated_at = instance.deactivated_at]

\* The rows expire_trials selects: status='active', ends_at__lte=now.
EndedActive(trials, now) ==
    {i \in 1..Len(trials) : trials[i].status = "active" /\ trials[i].ends_at <= now}

\* The instances of the queryset: each row as it is read, with its key.
Instances(trials, ids) == {[id |-> i, trial |-> trials[i]] : i \in ids}

ValueError(reason) == [ok |-> FALSE, error |-> "ValueError", reason |-> reason]

\* The account of a@x.io before its machine ID was registered again.
EarlierMachine == [email |-> "a@x.io", machine_id_hash |-> "h0"]
\* A trial started from that machine, which an administrator has marked as
\* converted to paid.
ConvertedTrial ==
    [NewTrial(EarlierMachine, "ROA305", 0)
        EXCEPT !.status = "converted", !.deactivated_at = 0]
\* Attempts logged for two accounts of the same machine that were deleted
\* since (their trials went with them, the log rows stay).
EarlierAttempts ==
    {[email |-> e, machine_id_hash |-> "h1", strategy_name |-> "ROA305",
      blocked |-> FALSE] : e \in {"x@x.io", "y@x.io"}}
\* The tables before any trial, the tables after a@x.io has started a trial
\* from the machine of the two deleted accounts, and the tables after it
\* has registered another machine.
Databases ==
    {[trials |-> <<>>, log |-> {}, now |-> 0],
     [trials |-> <<NewTrial(FirstAccount, "ROA305", 0)>>,
      log |-> EarlierAttempts \cup {LogRow(FirstAccount, "ROA305", FALSE)},
      now |-> 0],
     [trials |-> <<ConvertedTrial>>,
      log |-> {LogRow(EarlierMachine, "ROA305", FALSE)},
      now |-> 0]}

\* What a call returned.
Call(operation, args, returned) ==
    [ok |-> TRUE, operation |-> operation, args |-> args, returned |-> returned]

\* The periodic run of the expire_trials command, and a run started while
\* it is under way.  Where what the command returns is kept, out[j] is
\* what the last run that ended returned: the runs before the first trial
\* ended returned 0.
CronJob == MaxWorkers + 1
CronJobs == {CronJob, CronJob + 1}
NoneExpired == Call("expire_trials", <<>>, 0)
LastReturns(processes) ==
    [p \in processes |-> IF p \in CronJobs THEN NoneExpired ELSE NoResult]
Return(p, result) == IF p \in DOMAIN out THEN [out EXCEPT ![p] = result] ELSE out

InitTrial ==
    /\ pc = [p \in Workers \cup {CronJob} |-> "idle"]
    /\ df = EmptyDataFrame
    /\ out = LastReturns(Workers)
    /\ fs \in Databases
    /\ req = [p \in Workers \cup {CronJob} |-> NoCall]
    /\ res = [p \in Workers \cup {CronJob} |-> NoWrites]

\* The view calls start_trial(user, strategy_name): the transaction opens.
StartTrial(w) ==
    /\ pc[w] = "idle"
    /\ \E request \in TrialRequests : req' = [req EXCEPT ![w] = request]
    /\ pc' = [pc EXCEPT ![w] = "check"]
    /\ out' = [out EXCEPT ![w] = NoResult]
    /\ res' = [res EXCEPT ![w] = NoWrites]
    /\ UNCHANGED <<df, fs>>

\* can_start_trial, first half: Trial.can_user_start_trial.  A refusal is
\* raised as ValueError and the transaction is rolled back.
CanUserStartTrial(w) ==
    /\ pc[w] = "check"
    /\ LET r == can_user_start_trial(VisibleTrials(fs, res[w]),
                                     req[w].user, req[w].strategy_name)
       IN  IF r.ok
           THEN /\ pc' = [pc EXCEPT ![w] = "detect"]
                /\ UNCHANGED out
           ELSE /\ pc' = [pc EXCEPT ![w] = "idle"]
                /\ out' = [out EXCEPT ![w] = ValueError(r.reason)]
    /\ res' = [res EXCEPT ![w] = NoWrites]
    /\ UNCHANGED <<df, fs, req>>

\* can_start_trial, second half: detect_trial_abuse, which no other code
\* calls, so that its queries and the row it writes belong to the
\* transaction of start_trial.  It returns True after it has written the
\* blocked attempt row: can_start_trial returns the refusal, start_trial
\* raises ValueError and the transaction, the row with it, is rolled back.
Suspected(w) ==
    /\ pc' = [pc EXCEPT ![w] = "idle"]
    /\ out' = [out EXCEPT ![w] = ValueError(Suspicious)]
    /\ res' = [res EXCEPT ![w] = NoWrites]

\* detect_trial_abuse, lines 133-150: the first query counts the emails
\* logged for the machine.
CountEmails(w) ==
    /\ pc[w] = "detect"
    /\ IF different_emails(VisibleLog(fs, res[w]), req[w].user) > 2
       THEN Suspected(w)
       ELSE /\ pc' = [pc EXCEPT ![w] = "detect_machines"]
            /\ UNCHANGED <<out, res>>
    /\ UNCHANGED <<df, fs, req>>

\* detect_trial_abuse, lines 152-168: the second query counts the machines
\* logged for the email.
CountMachines(w) ==
    /\ pc[w] = "detect_machines"
    /\ IF different_machines(VisibleLog(fs, res[w]), req[w].user) > 1
       THEN Suspected(w)
       ELSE /\ pc' = [pc EXCEPT ![w] = "create"]
            /\ UNCHANGED <<out, res>>
    /\ UNCHANGED <<df, fs, req>>

\* Trial.objects.create: the INSERT waits while another open transaction
\* holds an uncommitted row with the same key, fails with IntegrityError
\* against a committed one, and otherwise writes the row.
CreateTrial(w) ==
    /\ pc[w] = "create"
    /\ LET row == NewTrial(req[w].user, req[w].strategy_name, fs.now)
       IN  /\ \A v \in Workers \ {w} : UniqueTogether(res[v].trials, row)
           /\ IF UniqueTogether(VisibleTrials(fs, res[w]), row)
              THEN /\ pc' = [pc EXCEPT ![w] = "log"]
                   /\ res' = [res EXCEPT ![w].trials = Append(@, row)]
                   /\ UNCHANGED out
              ELSE /\ pc' = [pc EXCEPT ![w] = "idle"]
                   /\ res' = [res EXCEPT ![w] = NoWrites]
                   /\ out' = [out EXCEPT ![w] = Raise("IntegrityError")]
    /\ UNCHANGED <<df, fs, req>>

\* TrialAbuseLog.objects.create(..., blocked=False)
CreateLog(w) ==
    /\ pc[w] = "log"
    /\ pc' = [pc EXCEPT ![w] = "commit"]
    /\ res' = [res EXCEPT ![w].log =
                  @ \cup {LogRow(req[w].user, req[w].strategy_name, FALSE)}]
    /\ UNCHANGED <<df, out, fs, req>>

\* return trial, True: the transaction commits.
Commit(w) ==
    /\ pc[w] = "commit"
    /\ pc' = [pc EXCEPT ![w] = "idle"]
    /\ fs' = [fs EXCEPT !.trials = @ \o res[w].trials,
                        !.log = @ \cup res[w].log]
    /\ out' = [out EXCEPT ![w] =
                  [ok |-> TRUE, trial |-> res[w].trials[1], created |-> TRUE]]
    /\ res' = [res EXCEPT ![w] = NoWrites]
    /\ UNCHANGED <<df, req>>

\* A trial period passes.
Tick ==
    /\ fs.now + TRIAL_DURATION_DAYS <= TRIAL_DURATION_DAYS * MaxWeeks
    /\ fs' = [fs EXCEPT !.now = @ + TRIAL_DURATION_DAYS]
    /\ UNCHANGED <<pc, df, out, req, res>>

\* expire_trials, lines 105-114: the queryset is evaluated when the loop
\* starts; with no row selected the loop is not entered and 0 is returned.
SelectEnded(j) ==
    /\ pc[j] = "idle"
    /\ LET selected == EndedActive(fs.trials, fs.now)
       IN IF selected = {}
          THEN /\ out' = Return(j, Call("expire_trials", <<>>, 0))
               /\ UNCHANGED <<pc, res>>
          ELSE /\ pc' = [pc EXCEPT ![j] = "loop"]
               /\ UNCHANGED out
               /\ res' = [res EXCEPT ![j] =
                             [trials |-> <<>>, log |-> {},
                              instances |-> Instances(fs.trials, selected),
                              selected |-> selected, expired_count |-> 0]]
    /\ UNCHANGED <<df, fs, req>>

\* expire_trials, lines 114-118: one pass of the loop.  check_and_expire
\* decides on the instance of the queryset and writes its status and
\* deactivated_at to the row, whatever the row holds by then; the UPDATE
\* of a row that is no longer there raises DatabaseError.  After the last
\* instance the count is returned.
ExpireSelected(j) ==
    /\ pc[j] = "loop"
    /\ \E instance \in res[j].instances :
          LET returns == check_and_expire_returns(instance.trial, fs.now)
              rest == res[j].instances \ {instance}
              expired_count == res[j].expired_count + (IF returns THEN 1 ELSE 0)
          IN IF returns /\ fs.trials[instance.id] = DeletedRow
             THEN /\ out' = Return(j, Raise("DatabaseError"))
                  /\ pc' = [pc EXCEPT ![j] = "idle"]
                  /\ res' = [res EXCEPT ![j] = NoWrites]
                  /\ UNCHANGED fs
             ELSE /\ fs' = IF returns
                           THEN [fs EXCEPT !.trials[instance.id] =
                                   SaveStatus(@, check_and_expire(instance.trial, fs.now))]
                           ELSE fs
                  /\ IF rest = {}
                     THEN /\ out' = Return(j, Call("expire_trials", <<>>, expired_count))
                          /\ pc' = [pc EXCEPT ![j] = "idle"]
                          /\ res' = [res EXCEPT ![j] = NoWrites]
                     ELSE /\ res' = [res EXCEPT ![j].instances = rest,
                                                ![j].expired_count = expired_count]
                          /\ UNCHANGED <<pc, out>>
    /\ UNCHANGED <<df, req>>

NextTrial ==
    \/ \E w \in Workers :
          \/ StartTrial(w)
          \/ CanUserStartTrial(w)
          \/ CountEmails(w)
          \/ CountMachines(w)
          \/ CreateTrial(w)
          \/ CreateLog(w)
          \/ Commit(w)
    \/ Tick
    \/ SelectEnded(CronJob)
    \/ ExpireSelected(CronJob)

SpecTrial == InitTrial /\ [][NextTrial]_vars

(***************************************************************************)
(* Claims about start_trial, stated against the committed trial table.     *)
(***************************************************************************)
KeyOf(t) == <<t.user, t.strategy_name>>
TrialKeys == {KeyOf(fs.trials[i]) : i \in 1..Len(fs.trials)}
AtMostOneTrialPerKey ==
    \A i, j \in 1..Len(fs.trials) :
        KeyOf(fs.trials[i]) = KeyOf(fs.trials[j]) => i = j
HasTrial(w) == <<req[w].user.email, req[w].strategy_name>> \in TrialKeys
\* Worker w's call ends in this step with ValueError, and no Trial exists
\* after the step that did not exist before it.
FailsWithValueError(w) ==
    /\ pc'[w] = "idle"
    /\ ~out'[w].ok /\ out'[w].error = "ValueError"
    /\ res'[w] = NoWrites
    /\ fs'.trials = fs.trials
\* The step in which worker w's call asks whether the trial may start.
Asks(w) == pc[w] = "check" /\ pc'[w] # "check"
RefusedWhenUsedOrNoMachine ==
    \A w \in Workers :
        Asks(w) /\ (HasTrial(w) \/ ~has_machine_id(req[w].user))
            => FailsWithValueError(w)

\* C20: whatever the interleaving of start_trial calls, the trial table
\* never holds two Trials of one user for one strategy; a call that asks
\* while the user has a Trial for the strategy, whatever its status, or
\* has no machine ID, ends with ValueError and adds no Trial.
C20_OneTrialPerUserAndStrategy ==
    /\ []AtMostOneTrialPerKey
    /\ [][RefusedWhenUsedOrNoMachine]_vars

StatusOf(user, strategy_name) ==
    {fs.trials[i].status : i \in {k \in 1..Len(fs.trials) :
        KeyOf(fs.trials[k]) = <<user, strategy_name>>}}
RefusedAs(w, email, strategy_name, reason) ==
    /\ pc[w] = "idle"
    /\ req[w] # NoCall
    /\ req[w].user.email = email /\ req[w].strategy_name = strategy_name
    /\ out[w] = ValueError(reason)

StartedFor(w, email, strategy_name) ==
    /\ pc[w] = "idle"
    /\ out[w].ok /\ "created" \in DOMAIN out[w] /\ out[w].created
    /\ out[w].trial.user = email /\ out[w].trial.strategy_name = strategy_name

\* Worker 2 started the trial of a user for a strategy; after the trial
\* had expired, worker 1's call for the same user and strategy was refused
\* with ValueError, and the table holds the one Trial.
C20_Witness ==
    /\ Len(fs.trials) = 1
    /\ StatusOf("a@x.io", "ROA306") = {"expired"}
    /\ RefusedAs(1, "a@x.io", "ROA306", AlreadyUsed)
    /\ StartedFor(2, "a@x.io", "ROA306")

\* Two calls for the same user and strategy ran at the same time and both
\* found no Trial: one returned the Trial, the other was stopped by the
\* uniqueness constraint (IntegrityError), and the table holds one Trial.
C20_RaceLoser ==
    /\ Len(fs.trials) = 1
    /\ pc[1] = "idle" /\ ~out[1].ok /\ out[1].error = "IntegrityError"
    /\ StartedFor(2, req[1].user.email, req[1].strategy_name)

\* A converted trial refuses a new one.
C20_Converted ==
    /\ StatusOf("a@x.io", "ROA305") = {"converted"}
    /\ RefusedAs(1, "a@x.io", "ROA305", AlreadyUsed)

\* An active trial refuses a new one.
C20_Active ==
    /\ StatusOf("a@x.io", "ROA305") = {"active"}
    /\ RefusedAs(1, "a@x.io", "ROA305", AlreadyUsed)

\* No machine ID.
C20_NoMachineId ==
    /\ RefusedAs(1, "d@x.io", "ROA305", NoMachineId)
    /\ TrialKeys = {}

\* Abuse detection refuses a user who has no trial for the strategy.
C20_Suspicious ==
    /\ RefusedAs(1, "a@x.io", "ROA306", Suspicious)
    /\ <<"a@x.io", "ROA306">> \notin TrialKeys

\* The second query of the detection refuses: the email is logged for two
\* machines while no machine is logged for more than two emails.
C20_SecondMachine ==
    /\ RefusedAs(1, "a@x.io", "ROA306", Suspicious)
    /\ different_emails(fs.log, req[1].user) <= 2
    /\ different_machines(fs.log, req[1].user) > 1
    /\ Len(TrialsOf(fs.trials, req[1].user, "ROA306")) = 1

\* One user holds a Trial for each of the two strategies.
C20_TwoStrategies ==
    /\ TrialKeys = {<<"a@x.io", "ROA305">>, <<"a@x.io", "ROA306">>}
    /\ Len(fs.trials) = 2

(***************************************************************************)
(* Claims about the busy intervals, the recovery pass and the calendar     *)
(* ratio of calculate_recovery_and_flat_periods.                           *)
(***************************************************************************)
BusyIntervals == Merged(df.rows)
EndPoints == {df.rows[i].entry : i \in Indices} \cup {df.rows[i].exit : i \in Indices}
\* The instants at which a trade can be open, and the instant after each.
Instants == EndPoints \cup {t + 1 : t \in EndPoints}
InTrade(t) == \E i \in Indices : df.rows[i].entry <= t /\ t <= df.rows[i].exit
InBusy(t) ==
    \E k \in 1..Len(BusyIntervals) :
        BusyIntervals[k][1] <= t /\ t <= BusyIntervals[k][2]
AscendingAndDisjoint ==
    \A k \in 1..(Len(BusyIntervals) - 1) :
        /\ BusyIntervals[k][1] <= BusyIntervals[k][2]
        /\ BusyIntervals[k][2] < BusyIntervals[k + 1][1]
CoversTheUnion == \A t \in Instants : InBusy(t) <=> InTrade(t)
IdleLength == [s \in IdleSpans |-> s[2] - s[1]]
\* The flat periods are the spans between busy intervals, and no others.
FlatPeriodsOfBusyIntervals(max_flat_period, avg_flat_period) ==
    /\ IdleSpans = {} => (max_flat_period = 0 /\ avg_flat_period.num = 0)
    /\ IdleSpans # {} =>
          /\ \E s \in IdleSpans : max_flat_period = IdleLength[s]
          /\ \A s \in IdleSpans : IdleLength[s] <= max_flat_period
          /\ RatEq(avg_flat_period,
                   Rat(SumOver(IdleSpans, IdleLength), Cardinality(IdleSpans)))

\* C22: the busy intervals are ascending, pairwise disjoint and cover
\* exactly the instants at which some trade is open; trades that touch
\* (one entered at the instant another exits) share a busy interval, so the
\* flat periods reported are the spans between the busy intervals only.
C22_BusyIntervals ==
    (pc \in {"recovery", "stats"} /\ df.rows # <<>>) =>
        /\ AscendingAndDisjoint
        /\ CoversTheUnion
        /\ pc = "recovery" =>
              FlatPeriodsOfBusyIntervals(out.periods.max_flat_period,
                                         out.periods.avg_flat_period)
        /\ pc = "stats" =>
              FlatPeriodsOfBusyIntervals(out.stats.max_flat_period,
                                         out.stats.avg_flat_period)

\* Trades that touch at an instant.
Touching ==
    \E i, j \in Indices : i # j /\ df.rows[j].entry = df.rows[i].exit

\* The same statement for trade sets in which no trade is entered at the
\* instant another one exits and every exit time is a time.
C22_WhenNoTradesTouch == Touching \/ NullExitIdx # {} \/ C22_BusyIntervals

\* Two trades entered and closed at the same instant and a third two days
\* later: three busy intervals and flat periods of 0 and 2 days, so the
\* average flat period is one day where the only idle span lasts two.
C22_TouchingCase ==
    /\ pc = "recovery"
    /\ Len(df.rows) = 3
    /\ df.rows[1].entry = 0 /\ df.rows[1].exit = 0
    /\ df.rows[2].entry = 0 /\ df.rows[2].exit = 0
    /\ df.rows[3].entry = 2 * MinutesPerDay
    /\ Len(BusyIntervals) = 3
    /\ out.periods.max_flat_period = 2 * MinutesPerDay
    /\ RatEq(out.periods.avg_flat_period, Rat(MinutesPerDay, 1))

\* Overlapping trades are merged: one entered at 0 and closed a day later,
\* one entered and closed at 0, one at day 2.
C22_OverlapCase ==
    /\ pc = "recovery"
    /\ Len(df.rows) = 3
    /\ df.rows[1].entry = 0 /\ df.rows[1].exit = MaxDay * MinutesPerDay
    /\ df.rows[2].entry = 0 /\ df.rows[2].exit = MinutesPerDay
    /\ Len(BusyIntervals) = 1
    /\ ~Touching

\* The equity realised at each trade's exit, as the recovery pass reads it.
EquityAtExit == IF pc = "stats" THEN out.equity_curve ELSE CumSum(Profits(df))
\* The trades that set a new peak: the equity is a number above every
\* earlier one.
PeaksOf(equity) ==
    {i \in 1..Len(equity) :
        /\ ~equity[i].nan
        /\ \A j \in 1..(i - 1) : equity[j].nan \/ equity[j].v < equity[i].v}
PeakIdx == PeaksOf(EquityAtExit)
\* The peak before peak i.
PeakBefore(i) == CHOOSE j \in PeakIdx : j < i /\ \A k \in PeakIdx : k < i => k <= j
\* The elapsed times from a peak to the next one, where both exit times are
\* times.
RecoveryCandidates ==
    {df.rows[i].exit - df.rows[PeakBefore(i)].exit :
        i \in {k \in PeakIdx : /\ \E j \in PeakIdx : j < k
                               /\ df.rows[k].exit # NaT
                               /\ df.rows[PeakBefore(k)].exit # NaT}}
MaxTimeToRecoverRule(max_time_to_recover) ==
    LET candidates == RecoveryCandidates
    IN /\ max_time_to_recover >= 0
       /\ max_time_to_recover \in candidates \cup {0}
       /\ \A c \in candidates : c <= max_time_to_recover
       /\ Cardinality(PeakIdx) <= 1 => max_time_to_recover = 0

\* C23: Max Time to Recover is the largest elapsed time between a new
\* equity peak (equity strictly above every earlier equity, in the set's
\* order) and the peak before it, measured between their exit times; the
\* first peak contributes nothing, an equity equal to the peak is no new
\* peak, and the result is never negative and 0 with at most one peak.
C23_MaxTimeToRecover ==
    /\ NonEmptyStats => MaxTimeToRecoverRule(out.stats.max_time_to_recover)
    /\ (pc = "recovery" /\ df.rows # <<>>) =>
          MaxTimeToRecoverRule(out.periods.max_time_to_recover)

\* Equity 2, 2, 4 at exits on days 0, 1 and 2: the second trade ties with
\* the peak, so the recovery runs from day 0 to day 2.
C23_Witness ==
    /\ pc = "recovery"
    /\ Len(df.rows) = 3
    /\ P = <<Num(2), Num(0), Num(2)>>
    /\ Column(df.rows, "exit") = <<0, MinutesPerDay, 2 * MinutesPerDay>>
    /\ PeakIdx = {1, 3}
    /\ out.periods.max_time_to_recover = 2 * MinutesPerDay

\* A new peak that exits before the previous peak did: the elapsed time is
\* negative and the result stays 0.
C23_EarlierExit ==
    /\ pc = "recovery"
    /\ Len(df.rows) = 2
    /\ PeakIdx = {1, 2}
    /\ df.rows[2].exit < df.rows[1].exit
    /\ out.periods.max_time_to_recover = 0

\* A peak without an exit time: no time elapses up to it or from it, and
\* the recovery between the peaks after it is reported.
C23_NullExit ==
    /\ pc = "recovery"
    /\ Column(df.rows, "exit") = <<NaT, MinutesPerDay, 2 * MinutesPerDay>>
    /\ PeakIdx = {1, 2, 3}
    /\ out.periods.max_time_to_recover = MinutesPerDay

\* A null equity is no peak.
C23_NullEquity ==
    /\ pc = "stats"
    /\ Len(df.rows) = 3
    /\ P[1].nan
    /\ PeakIdx = {2, 3}
    /\ out.stats.max_time_to_recover = MinutesPerDay

(***************************************************************************)
(* The statistics engine on trades entered and closed around midnight.     *)
(***************************************************************************)
\* 00:00 and 23:59 of every day.
DayEdges == {d * MinutesPerDay + m : d \in 0..MaxDay, m \in {0, MinutesPerDay - 1}}
\* A trade is closed at its entry time or a minute later.
EdgeRows == {TradeRow(e, e + h, Num(1), "Long", "A", 1) : e \in DayEdges, h \in {0, 1}}

RECURSIVE SortedEdgeSeqs(_)
SortedEdgeSeqs(n) ==
    IF n = 0 THEN {<<>>}
    ELSE LET shorter == SortedEdgeSeqs(n - 1)
         IN shorter \cup
            {Append(x[1], x[2]) :
                x \in {y \in {q \in shorter : Len(q) = n - 1} \X EdgeRows :
                          IsSortedByEntry(Append(y[1], y[2]))}}

EdgeFrames == {[cols |-> AllColumns, rows |-> rows] : rows \in SortedEdgeSeqs(MaxTrades)}

InitTimeInMarket ==
    /\ pc = "ready"
    /\ df \in EdgeFrames
    /\ out = NoResult
    /\ fs = NoFiles
    /\ req = NoRequest
    /\ res = NoResult

NextTimeInMarket == ComputeStatistics \/ RecoveryStep

SpecTimeInMarket == InitTimeInMarket /\ [][NextTimeInMarket]_vars

(***************************************************************************)
(* Claims about the percent time in market.                                *)
(***************************************************************************)
EntryDays == {DateOf(df.rows[i].entry) : i \in Indices}
FirstEntry == CHOOSE t \in {df.rows[i].entry : i \in Indices} :
                  \A i \in Indices : t <= df.rows[i].entry
LastExit == CHOOSE t \in {df.rows[i].exit : i \in Indices} :
                \A i \in Indices : df.rows[i].exit <= t
\* The calendar days from the day of the first entry to the day of the last
\* exit, both included, at least 1.
CalendarDaysSpanned ==
    LET days == DateOf(LastExit) - DateOf(FirstEntry) + 1
    IN IF days < 1 THEN 1 ELSE days
ReportedPct == IF pc = "stats" THEN out.stats.time_in_market_pct
               ELSE out.periods.pct_time_in_market
Reported == pc \in {"stats", "recovery"} /\ df.rows # <<>>

\* C24: the percent time in market is 100 times the number of distinct
\* days with a trade entry over the number of calendar days from the day of
\* the first entry to the day of the last exit, both included (at least 1).
C24_PctTimeInMarket ==
    Reported =>
        RatEq(ReportedPct,
              Rat(PercentScale * Cardinality(EntryDays), CalendarDaysSpanned))

\* The last exit is at a time of day not before that of the first entry, so
\* the whole days elapsed are the calendar days passed.
WholeDaysSpan == LastExit % MinutesPerDay >= FirstEntry % MinutesPerDay

\* The same statement for sets whose last exit is not at an earlier time of
\* day than the first entry and whose exit times are all times.
C24_WhenSpanIsWholeDays ==
    (Reported /\ NullExitIdx = {} /\ WholeDaysSpan) => C24_PctTimeInMarket

\* One trade entered at 23:59 and closed at 00:00 of the next day: two
\* calendar days are spanned, one minute has elapsed, 100 is reported.
C24_MidnightCase ==
    /\ pc = "recovery"
    /\ Len(df.rows) = 1
    /\ df.rows[1].entry = MinutesPerDay - 1 /\ df.rows[1].exit = MinutesPerDay
    /\ CalendarDaysSpanned = 2
    /\ RatEq(ReportedPct, Rat(PercentScale, 1))

\* Entries on day 0 and day 2, last exit at 23:59 of day 2: two days of
\* three, 200/3 percent.
C24_WholeDaysCase ==
    /\ pc = "recovery"
    /\ Len(df.rows) = 2
    /\ EntryDays = {0, 2}
    /\ WholeDaysSpan
    /\ CalendarDaysSpanned = 3
    /\ RatEq(ReportedPct, Rat(2 * PercentScale, 3))

\* C28: for a non-empty trade set the reported Time in Market % lies
\* between 0 and 100.
C28_PctWithinBounds ==
    Reported =>
        /\ ReportedPct.den > 0
        /\ 0 <= ReportedPct.num
        /\ ReportedPct.num <= PercentScale * ReportedPct.den

\* The same bound for sets whose last exit is not at an earlier time of day
\* than the first entry and whose exit times are all times.
C28_WhenSpanIsWholeDays ==
    (Reported /\ NullExitIdx = {} /\ WholeDaysSpan) => C28_PctWithinBounds

\* A trade closed at its entry on day 0 and one entered on day 1 without an
\* exit time: two entry days, the last exit on day 0, 200 percent.
C28_NullExitCase ==
    /\ pc = "stats"
    /\ Column(df.rows, "entry") = <<0, MinutesPerDay>>
    /\ Column(df.rows, "exit") = <<0, NaT>>
    /\ RatEq(ReportedPct, Rat(2 * PercentScale, 1))

\* One trade without an exit time: the days spanned are not a number and
\* 0.0 is reported.
C24_NullExitCase ==
    /\ pc = "recovery"
    /\ Len(df.rows) = 1
    /\ df.rows[1].exit = NaT
    /\ ReportedPct = RatZero

\* Entries at 23:59 of day 0 and at 00:00 of day 1: two entry days, one
\* minute elapsed, 200 percent.
C28_TwoDaysInOneMinute ==
    /\ pc = "stats"
    /\ Len(df.rows) = 2
    /\ df.rows[1].entry = MinutesPerDay - 1 /\ df.rows[1].exit = MinutesPerDay - 1
    /\ df.rows[2].entry = MinutesPerDay /\ df.rows[2].exit = MinutesPerDay
    /\ RatEq(ReportedPct, Rat(2 * PercentScale, 1))

\* Every day from the first entry to the last exit has an entry: 100.
C28_EveryDay ==
    /\ NonEmptyStats
    /\ WholeDaysSpan
    /\ Cardinality(EntryDays) = MaxDay + 1
    /\ RatEq(ReportedPct, Rat(PercentScale, 1))

(***************************************************************************)
(* Claims about the parsing of the time columns and of the date arguments. *)
(***************************************************************************)
ParseReasons ==
    {"Failed to parse 'Entry time' column", "Failed to parse 'Exit time' column"}
DateReasons == {"Invalid start_date format", "Invalid end_date format"}
IsParseError(o, reasons) ==
    /\ ~o.ok
    /\ o.error = "ValueError"
    /\ o.reason \in reasons
    /\ "df" \notin DOMAIN o
\* The cell holds a time written as day/month/year hour:minute:second.
MatchesFormat(cell) == cell.valid /\ cell.t # NaT
HasBothTimeColumns == fs.kind = "csv" /\ LacksRequired = {}
BadTimeRows ==
    {i \in 1..Len(fs.rows) :
        ~MatchesFormat(fs.rows[i].entry) \/ ~MatchesFormat(fs.rows[i].exit)}
EmptyTimeCells ==
    {i \in 1..Len(fs.rows) : NaT \in {fs.rows[i].entry.t, fs.rows[i].exit.t}}
BadDateArg == ~req.start_date.valid \/ ~req.end_date.valid

\* C25: a file with both time columns in which some row's Entry time or
\* Exit time does not match the format fails with the parse error and
\* returns no set, wherever the row lies with respect to the requested
\* range; a file whose times all match fails with the date-format error
\* when the start or the end date is a malformed string.
C25_ParseError ==
    (pc = "loaded" /\ HasBothTimeColumns /\ fs.rows # <<>>) =>
        /\ BadTimeRows # {} => IsParseError(out, ParseReasons)
        /\ (BadTimeRows = {} /\ BadDateArg) => IsParseError(out, DateReasons)
        /\ out.ok =>
              \A j \in 1..Len(out.df.rows) :
                  out.df.rows[j].entry # NaT /\ out.df.rows[j].exit # NaT

\* The same statement for files without an empty time cell.
C25_WhenNoCellIsEmpty == EmptyTimeCells # {} \/ C25_ParseError

\* A trade with an empty Exit time is loaded with a null exit time.
C25_EmptyExitCase ==
    /\ pc = "loaded"
    /\ fs = CsvFile(TradeColumns, <<NoExitRow>>)
    /\ req.start_date = DateStr(0) /\ req.end_date = DateStr(0)
    /\ out.ok
    /\ Len(out.df.rows) = 1
    /\ out.df.rows[1].exit = NaT

\* A trade with an empty Entry time is dropped without an error.
C25_EmptyEntryCase ==
    /\ pc = "loaded"
    /\ fs = CsvFile(TradeColumns, <<NoEntryRow, ShortRow>>)
    /\ req.start_date = DateStr(0) /\ req.end_date = DateStr(0)
    /\ out.ok
    /\ Len(out.df.rows) = 1

\* The malformed Entry time is in a row that, by its exit time, lies before
\* the requested range: the load fails all the same.
C25_OutOfRangeCase ==
    /\ pc = "loaded"
    /\ fs = CsvFile(TradeColumns, <<BadEntryRow>>)
    /\ req.start_date = DateStr(1) /\ req.end_date = DateStr(MaxDay)
    /\ IsParseError(out, {"Failed to parse 'Entry time' column"})

\* A malformed end date string.
C25_BadDateCase ==
    /\ pc = "loaded"
    /\ BadTimeRows = {} /\ fs.rows # <<>> /\ HasBothTimeColumns
    /\ req.start_date = DateStr(0) /\ req.end_date = BadDateStr
    /\ IsParseError(out, {"Invalid end_date format"})

(***************************************************************************)
(* A request that loads once and then calls the statistics engine on the   *)
(* sets it holds.  A function receives a reference to the caller's set: an *)
(* assignment to a column changes the caller's set unless the function has *)
(* rebound its local name to a copy first.                                 *)
(***************************************************************************)
Copy == [kind |-> "copy", column |-> ""]              \* df = df.copy()
Assign(column) == [kind |-> "assign", column |-> column]   \* df[column] = ...

\* The caller's set after the function has run the statements.
RECURSIVE CallerFrameAfter(_, _, _)
CallerFrameAfter(frame, statements, aliased) ==
    IF statements = <<>> THEN frame
    ELSE LET st == Head(statements)
         IN IF st.kind = "copy"
            THEN CallerFrameAfter(frame, Tail(statements), FALSE)
            ELSE CallerFrameAfter(
                     IF aliased THEN [frame EXCEPT !.cols = @ \cup {st.column}]
                     ELSE frame,
                     Tail(statements), aliased)

\* calculate_comprehensive_stats: the time columns are already datetimes,
\* so the only statement that touches df is the copy.
StatsStatements(frame) ==
    IF Len(frame.rows) = 0 THEN <<>>
    ELSE IF {"Entry time", "Exit time"} \subseteq frame.cols THEN <<Copy>>
    ELSE <<>>

\* Mutant: the day-of-week columns are written without copying first.
DayOfWeekStatements_in_place(frame) ==
    IF Len(frame.rows) = 0 THEN <<>>
    ELSE <<Assign("DayOfWeek"), Assign("DayName")>>

DayOfWeekStatements(frame) ==
    IF Len(frame.rows) = 0 THEN <<>>
    ELSE <<Copy, Assign("DayOfWeek"), Assign("DayName")>>

DailyStatements(frame) ==
    IF Len(frame.rows) = 0 THEN <<>> ELSE <<Copy, Assign("Date")>>

WindowStatements(frame) ==
    IF Len(frame.rows) = 0 THEN <<>> ELSE <<Copy, Assign("Time_Window")>>

\* The sets a caller holds after a load: the combined set and one per
\* instrument.
CombinedTarget == "combined_df"
Targets(loaded) == {CombinedTarget} \cup DOMAIN loaded.instruments_data
TargetFrame(loaded, target) ==
    IF target = CombinedTarget THEN loaded.combined_df
    ELSE loaded.instruments_data[target].trades
WithTarget(loaded, target, frame) ==
    IF target = CombinedTarget THEN [loaded EXCEPT !.combined_df = frame]
    ELSE [loaded EXCEPT !.instruments_data[target].trades = frame]

\* The files of a session: two instruments with trades, one of them
\* without its file, and neither file there.
SessionFiles ==
    {("A" :> CsvFile(TradeColumns, <<LongRow, ShortRow>>)
        @@ "B" :> CsvFile(TradeColumns, <<ShortRow>>)),
     ("A" :> CsvFile(TradeColumns, <<LongRow, ShortRow>>) @@ "B" :> AbsentFile),
     ("A" :> AbsentFile @@ "B" :> AbsentFile)}
\* The stable order and its reverse.
SessionTieOrders ==
    {StableOrder, [i \in 1..MaxTieRanks |-> MaxTieRanks + 1 - i]}
\* No filter and one contract, or a direction filter and more contracts.
SessionOptions ==
    {[filters |-> EmptyDict, contracts |-> EmptyDict],
     [filters |-> ("A" :> "Long Only"), contracts |-> ("B" :> MaxContracts)]}
\* A request, and the order in which the sort of the installed numpy leaves
\* rows of equal count: it is a property of the build, the same on every
\* call.
SessionRequests ==
    {[instruments |-> <<"A", "B">>, selected_instruments |-> {"A", "B"},
      instrument_filters |-> o.filters, instrument_contracts |-> o.contracts,
      start_date |-> DateStr(0), end_date |-> DateStr(MaxDay),
      tie_order |-> order] :
        o \in SessionOptions, order \in SessionTieOrders}

InitSession ==
    /\ pc = "ready"
    /\ df = EmptyDataFrame
    /\ out = <<>>
    /\ fs \in SessionFiles
    /\ req \in SessionRequests
    /\ res = NoResult

\* One call of an operation on one of the sets the caller holds: the
\* operation gets the set as the caller holds it now, out gets the call and
\* what it returned, res the set as the call left it.
Called(operation, target, returned, frame_after) ==
    /\ Len(out) < MaxCalls
    /\ out' = Append(out, [operation |-> operation, target |-> target,
                           result |-> returned])
    /\ res' = WithTarget(res, target, frame_after)
    /\ df' = frame_after
    /\ UNCHANGED <<pc, fs, req>>

CallComputeStatistics ==
    /\ pc = "loaded"
    /\ res.ok
    /\ \E target \in Targets(res) :
        LET frame == TargetFrame(res, target)
        IN Called("calculate_comprehensive_stats", target,
                  calculate_comprehensive_stats(frame, target),
                  CallerFrameAfter(frame, StatsStatements(frame), TRUE))

CallDayOfWeek ==
    /\ pc = "loaded"
    /\ res.ok
    /\ \E target \in Targets(res) :
        LET frame == TargetFrame(res, target)
        IN Called("calculate_day_of_week_stats", target,
                  calculate_day_of_week_stats(frame),
                  CallerFrameAfter(frame, DayOfWeekStatements(frame), TRUE))

CallDaily ==
    /\ pc = "loaded"
    /\ res.ok
    /\ \E target \in Targets(res) :
        LET frame == TargetFrame(res, target)
        IN Called("calculate_daily_instrument_stats", target,
                  calculate_daily_instrument_stats(frame),
                  CallerFrameAfter(frame, DailyStatements(frame), TRUE))

CallWindow ==
    /\ pc = "loaded"
    /\ res.ok
    /\ \E target \in Targets(res) :
        LET frame == TargetFrame(res, target)
        IN Called("calculate_5min_window_stats", target,
                  calculate_5min_window_stats(frame, req.tie_order),
                  CallerFrameAfter(frame, WindowStatements(frame), TRUE))

NextSession ==
    \/ LoadAndProcess
    \/ CallComputeStatistics
    \/ CallDayOfWeek
    \/ CallDaily
    \/ CallWindow

SpecSession == InitSession /\ [][NextSession]_vars

(***************************************************************************)
(* Claims about the engine leaving its inputs alone.                       *)
(***************************************************************************)
AsLoaded == load_and_process_trades(fs, req)
SameCall(i, j) ==
    out[i].operation = out[j].operation /\ out[i].target = out[j].target
SameCallSameResult ==
    \A i, j \in 1..Len(out) : SameCall(i, j) => out[i].result = out[j].result

C26_Repeated ==
    /\ pc = "loaded"
    /\ Len(out) = MaxCalls
    /\ out[1].operation = "calculate_5min_window_stats"
    /\ out[1].target = "A"
    /\ out[Len(out) - 1].operation = "calculate_daily_instrument_stats"
    /\ out[Len(out) - 1].target = CombinedTarget
    /\ out[Len(out)] = out[1]
    /\ out[1].result.ok

(***************************************************************************)
(* Machine ID registration.  Each request works on its own CustomUser      *)
(* instance, read from the users table when the request starts; fs is the  *)
(* user's row of the table and the clock, res[w] the instance of request   *)
(* w, req[w] the machine ID it submits and out[w] what set_machine_id      *)
(* returned to it.  The settings page, the password reset and the admin    *)
(* change form save the whole instance of their request.                   *)
(***************************************************************************)
MachineIds == {"M1", "M2"}

\* hashlib.sha256(machine_id.encode()).hexdigest(): a different digest for
\* each machine ID, never the machine ID itself and never empty.
Sha256(machine_id) == IF machine_id = "M1" THEN "h1" ELSE "h2"

NoInstance == [machine_id_hash |-> "", machine_id_set_at |-> NotSet]
NoReturn == [returned |-> FALSE]
Returned(value) == [returned |-> TRUE, value |-> value]

InitMachineId ==
    /\ pc = [w \in Workers |-> "idle"]
    /\ df = EmptyDataFrame
    /\ out = [w \in Workers |-> NoReturn]
    /\ fs = [user |-> NoInstance, now |-> 0]
    /\ req = [w \in Workers |-> ""]
    /\ res = [w \in Workers |-> NoInstance]

\* A request arrives with a machine ID; request.user is read from the table.
LoadUser(w) ==
    /\ pc[w] \in {"idle", "done"}
    /\ \E machine_id \in MachineIds : req' = [req EXCEPT ![w] = machine_id]
    /\ res' = [res EXCEPT ![w] = fs.user]
    /\ out' = [out EXCEPT ![w] = NoReturn]
    /\ pc' = [pc EXCEPT ![w] = "call"]
    /\ UNCHANGED <<df, fs>>

\* set_machine_id, line 125: the instance already has a hash.
AlreadySet(w) ==
    /\ pc[w] = "call"
    /\ res[w].machine_id_hash # ""
    /\ out' = [out EXCEPT ![w] = Returned(FALSE)]
    /\ pc' = [pc EXCEPT ![w] = "done"]
    /\ UNCHANGED <<df, fs, req, res>>

\* set_machine_id, line 125 passed: the instance has no hash.
PassCheck(w) ==
    /\ pc[w] = "call"
    /\ res[w].machine_id_hash = ""
    /\ pc' = [pc EXCEPT ![w] = "save"]
    /\ UNCHANGED <<df, out, fs, req, res>>

\* set_machine_id, lines 129-132: hash and timestamp are written on the
\* instance and saved to the row.
SaveMachineId(w) ==
    /\ pc[w] = "save"
    /\ LET saved == [machine_id_hash |-> Sha256(req[w]), machine_id_set_at |-> fs.now]
       IN /\ res' = [res EXCEPT ![w] = saved]
          /\ fs' = [fs EXCEPT !.user = saved]
    /\ out' = [out EXCEPT ![w] = Returned(TRUE)]
    /\ pc' = [pc EXCEPT ![w] = "done"]
    /\ UNCHANGED <<df, req>>

\* A request of the settings page, of the password reset or of the admin
\* change form arrives: the user is read from the table.
LoadForChange(w) ==
    /\ pc[w] \in {"idle", "done"}
    /\ req' = [req EXCEPT ![w] = ""]
    /\ res' = [res EXCEPT ![w] = fs.user]
    /\ out' = [out EXCEPT ![w] = NoReturn]
    /\ pc' = [pc EXCEPT ![w] = "change"]
    /\ UNCHANGED <<df, fs>>

\* user.save() with no update_fields: every column of the row is written
\* from the instance, machine_id_hash and machine_id_set_at among them.
FullSave(w) ==
    /\ pc[w] = "change"
    /\ fs' = [fs EXCEPT !.user = res[w]]
    /\ pc' = [pc EXCEPT ![w] = "done"]
    /\ UNCHANGED <<df, out, req, res>>

ClockTick ==
    /\ fs.now < MaxClock
    /\ fs' = [fs EXCEPT !.now = @ + 1]
    /\ UNCHANGED <<pc, df, out, req, res>>

NextMachineId ==
    \/ \E w \in Workers : LoadUser(w)
    \/ \E w \in Workers : AlreadySet(w)
    \/ \E w \in Workers : PassCheck(w)
    \/ \E w \in Workers : SaveMachineId(w)
    \/ \E w \in Workers : LoadForChange(w)
    \/ \E w \in Workers : FullSave(w)
    \/ ClockTick

SpecMachineId == InitMachineId /\ [][NextMachineId]_vars

(***************************************************************************)
(* Claims about machine ID registration.                                   *)
(***************************************************************************)
ReturnsNow(w, value) ==
    /\ ~out[w].returned
    /\ out'[w].returned
    /\ out'[w].value = value

SetOnceStep ==
    /\ fs.user.machine_id_hash # "" => fs'.user = fs.user
    /\ \A w \in Workers :
          /\ ReturnsNow(w, TRUE) =>
                /\ fs.user.machine_id_hash = ""
                /\ fs'.user.machine_id_hash = Sha256(req[w])
          /\ (fs.user.machine_id_hash # "" /\ out'[w] # out[w] /\ out'[w].returned)
                => out'[w].value = FALSE

\* C21: a call of set_machine_id returns True only when no hash is stored,
\* and the hash stored then is the one of that call; once a hash is stored
\* no step changes the hash or its timestamp and every call that returns
\* returns False.  So over any interleaving at most one call returns True.
C21_SetOnce == [][SetOnceStep]_vars

\* Calls that follow one another: the second request read the user after
\* the first had saved, and was refused with the row left as it was.
C21_Sequential ==
    /\ out[1] = Returned(TRUE)
    /\ out[2] = Returned(FALSE)
    /\ req[1] = "M1" /\ req[2] = "M2"
    /\ fs.user.machine_id_hash = Sha256("M1")
    /\ fs.user.machine_id_set_at < fs.now

\* Two requests that both read the user before either saved: both calls
\* returned True and the stored hash is the one of the later save.
C21_BothReturnTrue ==
    /\ out[1] = Returned(TRUE)
    /\ out[2] = Returned(TRUE)
    /\ req[1] = "M1" /\ req[2] = "M2"
    /\ res[1].machine_id_hash = Sha256("M1")
    /\ fs.user.machine_id_hash = Sha256("M2")

\* A request of the settings page read the user before the machine ID
\* was set and saved after: the call had returned True, and the stored
\* hash is empty again.
C21_HashErased ==
    /\ out[1] = Returned(TRUE)
    /\ res[1].machine_id_hash = Sha256(req[1])
    /\ pc[2] = "done" /\ req[2] = "" /\ res[2] = NoInstance
    /\ fs.user = NoInstance

(***************************************************************************)
(* Claims about discovery returning one instrument per prefix.             *)
(***************************************************************************)
PairedPrefixes == {prefix \in ListedPrefixes : Paired(prefix)}

\* C29: the mapping returned by find_instruments has one instrument for
\* each prefix that has both files: two different paired prefixes never
\* have the same short code, and the number of instruments is the number
\* of paired prefixes, so no instrument's files are replaced by another's.
C29_OneInstrumentPerPrefix ==
    pc = "found" =>
        /\ \A p, q \in PairedPrefixes : CodeOf(p) = CodeOf(q) => p = q
        /\ Cardinality(DOMAIN out.instruments) = Cardinality(PairedPrefixes)

\* Two paired prefixes, ROA305-GC-55 and gc55, have the code GC55: one
\* instrument is returned and the files of gc55 are not in the mapping.
C29_Replaced ==
    /\ pc = "found"
    /\ Listed = {"ROA305-GC-55-trades.csv", "ROA305-GC-55-Summary.csv",
                 "gc55-Trades.csv", "gc55-summary.csv"}
    /\ Cardinality(PairedPrefixes) = 2
    /\ DOMAIN out.instruments = {"GC55"}
    /\ out.instruments["GC55"].trades = "data/ROA305-GC-55-trades.csv"
    /\ out.instruments["GC55"].summary = "data/ROA305-GC-55-Summary.csv"

\* One paired prefix in a folder of MaxFiles files: one instrument.
C29_DistinctCodes ==
    /\ pc = "found"
    /\ Cardinality(PairedPrefixes) = 1
    /\ DOMAIN out.instruments = {"GC55"}
    /\ Cardinality(Listed) = MaxFiles

(***************************************************************************)
(* Claims about the abuse log, stated against the committed log table.     *)
(***************************************************************************)
Finished(w) == pc[w] = "idle" /\ req[w] # NoCall
Started(w) == Finished(w) /\ out[w].ok /\ "created" \in DOMAIN out[w]
RejectedAsSuspicious(w) == Finished(w) /\ out[w] = ValueError(Suspicious)
Logged(w, blocked) == LogRow(req[w].user, req[w].strategy_name, blocked) \in fs.log

\* The step in which worker w's call fails as suspicious.
RejectedNow(w) ==
    /\ pc[w] \in {"detect", "detect_machines"}
    /\ pc'[w] = "idle"
    /\ out'[w] = ValueError(Suspicious)
StartedAreLogged == \A w \in Workers : Started(w) => Logged(w, FALSE)
RejectedAreLogged == \A w \in Workers : RejectedAsSuspicious(w) => Logged(w, TRUE)
RejectionCreatesNoTrial ==
    \A w \in Workers : RejectedNow(w) => (fs'.trials = fs.trials /\ res'[w].trials = <<>>)

\* C27: once a call of start_trial has returned a started trial, the abuse
\* log holds the attempt's entry with blocked=False; once a call has failed
\* because abuse detection found it suspicious, the log holds the attempt's
\* entry with blocked=True; and the step that rejects an attempt adds no
\* Trial.
C27_AttemptsLogged ==
    /\ [](StartedAreLogged /\ RejectedAreLogged)
    /\ [][RejectionCreatesNoTrial]_vars

\* What holds: the entry of a started trial, and no Trial from a rejection.
C27_StartedLoggedRejectedNoTrial ==
    []StartedAreLogged /\ [][RejectionCreatesNoTrial]_vars

\* The machine was logged for two other emails and for this user's first
\* trial; the user's attempt for a second strategy failed as suspicious,
\* and the log holds no blocked entry at all.
C27_RejectedNotLogged ==
    /\ RejectedAsSuspicious(1)
    /\ req[1].user.email = "a@x.io" /\ req[1].strategy_name = "ROA306"
    /\ ~Logged(1, TRUE)
    /\ \A r \in fs.log : ~r.blocked
    /\ TrialKeys = {<<"a@x.io", "ROA305">>}

\* A started trial and its blocked=False entry.
C27_StartedLogged ==
    /\ Started(2)
    /\ Logged(2, FALSE)
    /\ fs.log = {LogRow(req[2].user, req[2].strategy_name, FALSE)}
    /\ Len(fs.trials) = 1

(***************************************************************************)
(* The life of the trials that have been started.  The runs of the         *)
(* expire_trials command, a caller of check_trial_access and of            *)
(* Trial.check_and_expire on a trial it has read, and a member of staff at *)
(* the admin site work on the same table.  out[p] is what the last call of *)
(* p returned.                                                             *)
(***************************************************************************)
\* Trial.is_active
is_active(t, now) == t.status = "active" /\ t.ends_at > now

\* Trial.objects.get(user=..., strategy_name=...).is_active, False when the
\* row does not exist.
check_trial_access(trials, user, strategy_name, now) ==
    LET found == TrialsOf(trials, user, strategy_name)
    IN IF Len(found) = 0 THEN FALSE ELSE is_active(found[1], now)

Caller == CronJob + 2
Staff == CronJob + 3
Processes == CronJobs \cup {Caller, Staff}
StatusChoices == {"active", "expired", "converted"}

\* The trials of the first account: one was started a period ago and has
\* not been expired yet, the other has just been started.
EndedTrial == NewTrial(FirstAccount, "ROA305", 0 - TRIAL_DURATION_DAYS)
RunningTrial == NewTrial(FirstAccount, "ROA306", 0)
LifecycleDatabases ==
    {[trials |-> <<EndedTrial, RunningTrial>>,
      log |-> {LogRow(FirstAccount, strategy_name, FALSE) : strategy_name \in Strategies},
      now |-> 0]}

NoEdits == [trials |-> <<>>, log |-> {}, instances |-> {}, edits |-> 0]

InitLifecycle ==
    /\ pc = [p \in Processes |-> "idle"]
    /\ df = EmptyDataFrame
    /\ out = LastReturns(Processes)
    /\ fs \in LifecycleDatabases
    /\ req = [p \in Processes |-> NoCall]
    /\ res = [p \in Processes |-> IF p = Staff THEN NoEdits ELSE NoWrites]

\* The request reads a trial: the instance is the row as it is now.
GetTrial ==
    /\ pc[Caller] = "idle"
    /\ \E i \in 1..Len(fs.trials) :
          /\ fs.trials[i] # DeletedRow
          /\ res' = [res EXCEPT ![Caller] =
                        [trials |-> <<>>, log |-> {},
                         instances |-> Instances(fs.trials, {i})]]
    /\ pc' = [pc EXCEPT ![Caller] = "got"]
    /\ out' = [out EXCEPT ![Caller] = NoResult]
    /\ UNCHANGED <<df, fs, req>>

\* Trial.check_and_expire on the instance the request holds.
CheckAndExpire ==
    /\ pc[Caller] = "got"
    /\ \E instance \in res[Caller].instances :
          LET returns == check_and_expire_returns(instance.trial, fs.now)
          IN IF returns /\ fs.trials[instance.id] = DeletedRow
             THEN /\ out' = [out EXCEPT ![Caller] = Raise("DatabaseError")]
                  /\ UNCHANGED fs
             ELSE /\ fs' = IF returns
                           THEN [fs EXCEPT !.trials[instance.id] =
                                   SaveStatus(@, check_and_expire(instance.trial, fs.now))]
                           ELSE fs
                  /\ out' = [out EXCEPT ![Caller] =
                                Call("check_and_expire", <<instance.id>>, returns)]
    /\ res' = [res EXCEPT ![Caller] = NoWrites]
    /\ pc' = [pc EXCEPT ![Caller] = "idle"]
    /\ UNCHANGED <<df, req>>

CheckTrialAccess ==
    /\ pc[Caller] = "idle"
    /\ \E request \in TrialRequests :
          out' = [out EXCEPT ![Caller] =
                    Call("check_trial_access",
                         <<request.user.email, request.strategy_name>>,
                         check_trial_access(fs.trials, request.user,
                                            request.strategy_name, fs.now))]
    /\ UNCHANGED <<pc, df, fs, req, res>>

\* The live rows of the table.
LiveRows(trials) == {i \in 1..Len(trials) : trials[i] # DeletedRow}

\* validate_unique of the posted form: a row other than the one with the
\* primary key id holds the user and the strategy of the posted trial.
KeyTaken(trials, id, trial) ==
    \E k \in LiveRows(trials) \ {id} : SameKey(trials[k], trial)

\* The machine a member of staff types into the form.
TypedMachine == "h0"

\* What a posted change form makes of the instance: TrialAdmin lets staff
\* edit user, strategy_name, status, ends_at and machine_id_snapshot, and
\* shows started_at and deactivated_at read-only.  A post changes the status
\* and the end of the period, or the owner, the strategy and the machine.
TrialForms(trial, now) ==
    {[trial EXCEPT !.status = status, !.ends_at = ends_at] :
        status \in StatusChoices,
        ends_at \in {trial.ends_at, now + TRIAL_DURATION_DAYS}}
    \cup
    {[trial EXCEPT !.user = user.email, !.strategy_name = strategy_name,
                   !.machine_id_snapshot = machine] :
        user \in Users, strategy_name \in Strategies,
        machine \in {trial.machine_id_snapshot, TypedMachine}}

\* What a posted add form makes: started_at is the default timezone.now and
\* deactivated_at stays NULL.
NewTrialForms(now) ==
    {[NewTrial(user, strategy_name, now) EXCEPT
          !.status = status, !.machine_id_snapshot = TypedMachine] :
        user \in Users, strategy_name \in Strategies, status \in StatusChoices}

\* TrialAbuseLogAdmin shows every field but blocked read-only: an added
\* entry holds the defaults of the other fields.
NewLogRows ==
    {[email |-> "", machine_id_hash |-> "", strategy_name |-> "",
      blocked |-> blocked] : blocked \in BOOLEAN}

StaffIsFree == pc[Staff] = "idle" /\ res[Staff].edits < MaxEdits
Edited == res' = [res EXCEPT ![Staff].instances = {}, ![Staff].edits = @ + 1]

\* TrialAdmin, the change form is posted: the trial is read.
AdminGet ==
    /\ StaffIsFree
    /\ \E i \in LiveRows(fs.trials) :
          res' = [res EXCEPT ![Staff].instances = Instances(fs.trials, {i})]
    /\ pc' = [pc EXCEPT ![Staff] = "form"]
    /\ UNCHANGED <<df, out, fs, req>>

\* TrialAdmin, the change form is saved: a form whose user and strategy
\* another trial holds is shown again with the error and nothing is
\* written; otherwise save() writes every column of the instance, the
\* read-only ones as they were read, to the row.
AdminSave ==
    /\ pc[Staff] = "form"
    /\ \E instance \in res[Staff].instances :
       \E posted \in TrialForms(instance.trial, fs.now) :
          fs' = IF KeyTaken(fs.trials, instance.id, posted)
                THEN fs
                ELSE [fs EXCEPT !.trials[instance.id] = posted]
    /\ Edited
    /\ pc' = [pc EXCEPT ![Staff] = "idle"]
    /\ UNCHANGED <<df, out, req>>

\* TrialAdmin, the add form is saved: the trial gets the next primary key,
\* unless a trial holds its user and strategy.
AdminAdd ==
    /\ StaffIsFree
    /\ \E posted \in NewTrialForms(fs.now) :
          fs' = IF UniqueTogether(fs.trials, posted)
                THEN [fs EXCEPT !.trials = Append(@, posted)]
                ELSE fs
    /\ Edited
    /\ UNCHANGED <<pc, df, out, req>>

\* TrialAdmin, one trial is deleted, or the selected trials with the
\* "delete selected" action, or a user, whose trials go with it
\* (on_delete=CASCADE) while the log entries stay (on_delete=SET_NULL).
AdminDelete ==
    /\ StaffIsFree
    /\ \E ids \in SUBSET LiveRows(fs.trials) \ {{}} :
          fs' = [fs EXCEPT !.trials =
                    [i \in 1..Len(fs.trials) |->
                        IF i \in ids THEN DeletedRow ELSE fs.trials[i]]]
    /\ Edited
    /\ UNCHANGED <<pc, df, out, req>>

\* TrialAbuseLogAdmin: the change form of an entry is saved with blocked
\* set or cleared, or an entry is added.
AdminLogSave ==
    /\ StaffIsFree
    /\ \/ \E row \in fs.log, blocked \in BOOLEAN :
             fs' = [fs EXCEPT !.log = (@ \ {row}) \cup {[row EXCEPT !.blocked = blocked]}]
       \/ \E row \in NewLogRows : fs' = [fs EXCEPT !.log = @ \cup {row}]
    /\ Edited
    /\ UNCHANGED <<pc, df, out, req>>

\* TrialAbuseLogAdmin: one entry or the selected entries are deleted.
AdminLogDelete ==
    /\ StaffIsFree
    /\ \E rows \in SUBSET fs.log \ {{}} : fs' = [fs EXCEPT !.log = @ \ rows]
    /\ Edited
    /\ UNCHANGED <<pc, df, out, req>>

NextLifecycle ==
    \/ \E j \in CronJobs : SelectEnded(j) \/ ExpireSelected(j)
    \/ GetTrial
    \/ CheckAndExpire
    \/ CheckTrialAccess
    \/ AdminGet
    \/ AdminSave
    \/ AdminAdd
    \/ AdminDelete
    \/ AdminLogSave
    \/ AdminLogDelete
    \/ Tick

SpecLifecycle == InitLifecycle /\ [][NextLifecycle]_vars

(***************************************************************************)
(* Claims about the life of a trial.                                       *)
(***************************************************************************)
\* The step is the return of a call of the operation by process p.
Returns(p, operation) ==
    /\ out'[p] # out[p]
    /\ "operation" \in DOMAIN out'[p]
    /\ out'[p].operation = operation

\* The step is a call of Trial.check_and_expire by process p.
InCheckAndExpire(p) ==
    /\ pc[p] \in {"loop", "got"}
    /\ <<pc'[p], res'[p]>> # <<pc[p], res[p]>>

\* The call returns True: the caller gets it, a run counts it.
ReturnsTrue(p) ==
    IF p = Caller THEN "returned" \in DOMAIN out'[p] /\ out'[p].returned
    ELSE IF pc'[p] = "loop" THEN res'[p].expired_count > res[p].expired_count
    ELSE "returned" \in DOMAIN out'[p] /\ out'[p].returned > res[p].expired_count

\* The step is the return of a run of expire_trials that selected trials.
Completes(j) == pc[j] = "loop" /\ pc'[j] = "idle" /\ "returned" \in DOMAIN out'[j]

Kept(i) == fs.trials[i] # DeletedRow /\ fs'.trials[i] # DeletedRow

RowsMoved ==
    {i \in 1..Len(fs.trials) :
        fs.trials[i].status = "active" /\ fs'.trials[i].status = "expired"}

StatusOnlyExpires ==
    \A i \in 1..Len(fs.trials) :
        (Kept(i) /\ fs'.trials[i].status # fs.trials[i].status) =>
            /\ fs.trials[i].status = "active"
            /\ fs'.trials[i].status = "expired"
            /\ fs.trials[i].ends_at <= fs.now
            /\ \E p \in CronJobs \cup {Caller} : InCheckAndExpire(p)

ExpiredStaysExpired ==
    \A i \in 1..Len(fs.trials) :
        (Kept(i) /\ fs.trials[i].status = "expired") =>
            /\ fs'.trials[i].status # "active"
            /\ (\E p \in CronJobs \cup {Caller} : InCheckAndExpire(p))
                  => fs'.trials[i] = fs.trials[i]

CountsRowsMoved ==
    \A p \in CronJobs \cup {Caller} :
        InCheckAndExpire(p) => (ReturnsTrue(p) <=> Cardinality(RowsMoved) = 1)

ExpireTrialsExpiresAll ==
    \A j \in CronJobs :
        Completes(j) =>
            \A i \in res[j].selected : fs'.trials[i].status # "active"

EndedIsNotReportedActive ==
    Returns(Caller, "check_trial_access") =>
        \A i \in 1..Len(fs.trials) :
            (KeyOf(fs.trials[i]) = out'[Caller].args /\ fs.trials[i].ends_at <= fs.now)
                => ~out'[Caller].returned

\* C30: a step changes the status of a trial only from active to expired,
\* only in check_and_expire and only when its end time is at or before the
\* current time; an expired trial never becomes active and no call of
\* check_and_expire changes it; a call of check_and_expire returns True
\* exactly when it has moved a trial to expired, so that it returns False
\* on an expired trial and the count expire_trials returns is the number
\* of trials it moved;
\* when a run of expire_trials returns, none of the trials that were
\* active with an end time at or before its start is active, so that a run
\* right after it finds none of them; check_trial_access returns False for a
\* trial whose end time is at or before the current time, whatever its
\* status.
C30_TrialLifecycle ==
    [][StatusOnlyExpires /\ ExpiredStaysExpired /\ CountsRowsMoved
         /\ ExpireTrialsExpiresAll /\ EndedIsNotReportedActive]_vars

\* Two runs of expire_trials that had both selected the trial that ended
\* first: one expired it and returned 1, the other expired it again and
\* the second trial and returned 2, three for the two trials of the table.
C30_CountedTwice ==
    /\ \A j \in CronJobs : pc[j] = "idle"
    /\ out[CronJob] = Call("expire_trials", <<>>, 1)
    /\ out[CronJob + 1] = Call("expire_trials", <<>>, 2)
    /\ fs.trials = <<[EndedTrial EXCEPT !.status = "expired",
                                        !.deactivated_at = TRIAL_DURATION_DAYS],
                     [RunningTrial EXCEPT !.status = "expired",
                                          !.deactivated_at = TRIAL_DURATION_DAYS]>>
    /\ res[Staff].edits = 0

\* What holds whoever else works on the table: check_trial_access
\* returns False for a trial whose end time has come.
C30_EndedNotReportedActive == [][EndedIsNotReportedActive]_vars

\* The other parts one by one; overlapping runs, a caller with an instance
\* fetched earlier and staff edits break them.
C30_StatusOnlyExpires == [][StatusOnlyExpires]_vars
C30_ExpiredStaysExpired == [][ExpiredStaysExpired]_vars
C30_CountsRowsMoved == [][CountsRowsMoved]_vars
C30_ExpireTrialsExpiresAll == [][ExpireTrialsExpiresAll]_vars

====
